---- MODULE Spec2Model ----
(***************************************************************************)
(* Funding-arbitrage bot: the decision and coordination layer.             *)
(*                                                                         *)
(*   ArbitrageEngine      src/src/bot/arbitrage_engine.py                  *)
(*   PositionManager      src/src/bot/position_manager.py                  *)
(*   FundingRateOracle    src/src/bot/funding_oracle.py                    *)
(*   Position             src/src/models/position.py                       *)
(*   ArbitrageOpportunity src/src/models/opportunity.py                    *)
(*                                                                         *)
(* The program is asyncio code: one thread, tasks that interleave only at  *)
(* the awaits that really suspend (the calls to a venue).  Every action    *)
(* below is the code a task runs between two such suspension points.       *)
(*                                                                         *)
(* Units.  Money is in whole USD, prices in USD, funding rates and spreads *)
(* in 1e-4 (one basis point), loss thresholds in 1e-3 of the capital.      *)
(***************************************************************************)
EXTENDS Integers, Sequences, FiniteSets, TLC

\* ------------------------------------------------------------------ bounds

\* Largest config.trading.max_concurrent_positions of the configurations.
MaxPositions == 2
\* Open attempts that reach the order placement in one run.
MaxOrders == 2
\* Opportunities one trading cycle evaluates (the code takes at most 5).
MaxCycleOpps == 2
\* Largest value of error_count the model follows (the code never resets it).
MaxErrorCount == 12
\* update_funding_rates calls the model follows.
MaxUpdates == 2

\* ------------------------------------------------------- program constants

position_size_usd == 1000
stop_loss_threshold == -5
min_spread_threshold == 5
ErrorCeiling == 10
emergency_close_threshold == -20
ReplacementNum == 3
ReplacementDen == 2
LiquidityScore == 2
\* RiskManagementConfig.max_position_age_hours, default (hours).
DefaultMaxPositionAge == 672

\* The configuration: the enabled exchanges, the tokens, the venue pairs.
Exchanges == {"binance", "hyperliquid"}
Tokens == {"BTC", "ETH"}
supported_pairs == <<"binance_hyperliquid">>

\* The configuration the oracle is followed under: the three venues enabled,
\* the three default venue pairs in their configured order, one token.
OracleExchanges == {"binance", "kucoin", "hyperliquid"}
OraclePairs == <<"binance_kucoin", "binance_hyperliquid", "kucoin_hyperliquid">>
OracleTokens == {"BTC"}

PairExchanges(pair_name) ==
    CASE pair_name = "binance_kucoin" -> <<"binance", "kucoin">>
      [] pair_name = "binance_hyperliquid" -> <<"binance", "hyperliquid">>
      [] pair_name = "kucoin_hyperliquid" -> <<"kucoin", "hyperliquid">>

SeqToSet(s) == {s[i] : i \in 1..Len(s)}
Remove(s, x) == SelectSeq(s, LAMBDA y : y # x)
Max2(a, b) == IF a >= b THEN a ELSE b
Min2(a, b) == IF a <= b THEN a ELSE b
Abs(x) == IF x < 0 THEN -x ELSE x

\* ------------------------------------------------------------ opportunity

\* FundingRateOracle._get_exchange_frequency: funding period in hours.
_get_exchange_frequency(exchange_name) ==
    IF exchange_name = "hyperliquid" THEN 1 ELSE 8

\* ArbitrageOpportunity._calculate_metrics: the absolute rate difference.
OppSpreadSigned(rate_a, rate_b) == rate_a - rate_b
OppSpread(rate_a, rate_b) == Abs(rate_a - rate_b)

\* ArbitrageOpportunity._calculate_metrics: the side suggested for exchange_a;
\* exchange_b gets the other one.
SuggestedSideAReversed(rate_a, rate_b) == IF rate_a > rate_b THEN "long" ELSE "short"
SuggestedSideA(rate_a, rate_b) == IF rate_a > rate_b THEN "short" ELSE "long"

\* ArbitrageOpportunity._calculate_score, times 10.  It runs in __post_init__,
\* when liquidity_score and confidence still hold their default 0.
pair_bonuses(pair_name) ==
    CASE pair_name = "binance_hyperliquid" -> 100
      [] pair_name = "kucoin_hyperliquid" -> 80
      [] pair_name = "binance_kucoin" -> 60
      [] OTHER -> 0

_calculate_score(pair_name, spread, freq_a, freq_b) ==
    LET spread_score == Min2(8 * spread, 400)
        freq_score == IF Min2(freq_a, freq_b) = 1 THEN 200
                      ELSE IF Max2(freq_a, freq_b) <= 8 THEN 100 ELSE 0
        score == spread_score + freq_score + pair_bonuses(pair_name)
    IN  Min2(1000, Max2(0, score))

\* ArbitrageOpportunity.calculate_execution_risk, times 10, for an opportunity
\* that was just detected (age 0).
calculate_execution_risk(spread, weekend) ==
    Min2(10, (IF spread > 50 THEN 3 ELSE 0) + (IF weekend THEN 1 ELSE 0))

\* ArbitrageOpportunity.estimate_confidence, times 10; the three venues of the
\* model are the reputable ones.
estimate_confidence(spread) ==
    LET base == 5 + (IF spread >= 2 /\ spread <= 20 THEN 3
                     ELSE IF spread > 20 THEN -2 ELSE 0) + 2
    IN  Min2(10, Max2(0, base))

\* create_opportunity (opportunity.py) as FundingRateOracle uses it: the record
\* of one detected opportunity.  `stale` is the clock: whether more than ten
\* minutes have passed since detected_at when the opportunity is looked at.
create_opportunity(token, pair_name, rate_a, rate_b, weekend) ==
    LET exs == PairExchanges(pair_name)
        spread == OppSpread(rate_a, rate_b)
    IN  [ token |-> token,
          pair_name |-> pair_name,
          exchange_a |-> exs[1],
          exchange_b |-> exs[2],
          funding_rate_a |-> rate_a,
          funding_rate_b |-> rate_b,
          side_a |-> SuggestedSideA(rate_a, rate_b),
          side_b |-> IF SuggestedSideA(rate_a, rate_b) = "long" THEN "short" ELSE "long",
          spread |-> spread,
          score |-> _calculate_score(pair_name, spread,
                                     _get_exchange_frequency(exs[1]),
                                     _get_exchange_frequency(exs[2])),
          confidence |-> estimate_confidence(spread),
          execution_risk |-> calculate_execution_risk(spread, weekend),
          stale |-> FALSE ]

\* ArbitrageOpportunity.risk_adjusted_score, times 2000 (score is times 10,
\* the risk factor times 20, the confidence times 10; volatility_risk is never
\* set and stays 0).
risk_adjusted_score(opp) == opp.score * (20 - opp.execution_risk) * opp.confidence

\* ArbitrageOpportunity.should_execute(min_spread, min_score = 30).
should_execute(opp, min_spread) ==
    /\ ~opp.stale
    /\ opp.spread >= min_spread
    /\ opp.score >= 300
    /\ opp.confidence > 3
    /\ opp.execution_risk < 7

\* --------------------------------------------------------------- position

\* ExchangePosition.pnl.  _open_arbitrage_position stores side as the string
\* "long" / "short"; pnl compares it with the enum member PositionSide.LONG,
\* which no string equals, so `is_long` is what that comparison yields.  A
\* price of 0 stands for None (both are falsy).
ExchangePositionPnl(is_long, size, entry_price, current_price) ==
    IF entry_price = 0 \/ current_price = 0 THEN 0
    ELSE IF is_long THEN (current_price - entry_price) * size
    ELSE (entry_price - current_price) * size

SideIsLongEnum(side) == FALSE

\* Position.total_pnl and Position.net_pnl; the funding collected is never
\* written by the position manager and stays 0.
total_pnl(p) == p.realized_pnl + p.unrealized_pnl
net_pnl(p) == total_pnl(p) - p.total_fees_paid

\* Position.roi_percentage times 10 (exact for size_usd = 1000).
roi_percentage10(p) ==
    IF p.size_usd = 0 THEN 0 ELSE (net_pnl(p) * 1000) \div p.size_usd

\* PositionManager.__init__: the fields of the manager the model follows;
\* max_age is config.risk_management.max_position_age_hours.
NewManager(running, max_age) ==
    [ is_running |-> running, max_position_age_hours |-> max_age ]

\* Position.is_expired: expected_close_time is opened_at + 4 weeks.
\* age: 0 under 24 h, 1 up to a week, 2 up to four weeks, 3 beyond.
is_expired(p) == p.age >= 3

\* Position.health_score.
health_score(p) ==
    LET profit == IF net_pnl(p) > 0 THEN Min2(roi_percentage10(p), 30)
                  ELSE Max2(roi_percentage10(p), -30)
        spread == IF p.current_spread > 2 THEN 10
                  ELSE IF p.current_spread < 0 THEN -20 ELSE 0
        age == IF p.age = 0 THEN 5 ELSE IF p.age >= 2 THEN -5 ELSE 0
    IN  Max2(0, Min2(100, 50 + profit + spread + age))

\* A close test that has lost the 24 hours of its low-profit rule.
should_closeAnyAge(p) ==
    \/ net_pnl(p) * 1000 <= stop_loss_threshold * p.size_usd
    \/ is_expired(p)
    \/ p.current_spread < 0
    \/ net_pnl(p) <= 0

\* Position.should_close(min_profit_threshold, stop_loss_threshold).  With
\* whole-dollar P&L, roi_decimal < 0.0002 and daily_profit_rate < 0.0002 both
\* say net_pnl <= 0.  emergency_close is never set by the program.
should_close(p) ==
    \/ net_pnl(p) * 1000 <= stop_loss_threshold * p.size_usd
    \/ is_expired(p)
    \/ p.current_spread < 0
    \/ (p.age >= 1 /\ net_pnl(p) <= 0)

\* ------------------------------------------------------------------ state

LoopIds == {"loop1", "loop2"}
TaskIds == {"caller", "mon"} \cup LoopIds
StopperIds == {"caller"} \cup LoopIds

VARIABLES
    state,                  \* ArbitrageEngine.state
    error_count,            \* ArbitrageEngine.error_count
    connectors,             \* keys of ArbitrageEngine.connectors
    is_connected,           \* connector.is_connected, per exchange
    oracle,                 \* ArbitrageEngine.funding_oracle (<<>> is None)
    position_manager,       \* ArbitrageEngine.position_manager (<<>> is None)
    positions_opened_today, \* ArbitrageEngine.positions_opened_today
    max_daily_loss,         \* config.risk_management.max_daily_loss (1e-3)
    max_concurrent_positions, \* config.trading.max_concurrent_positions
    positions,              \* every Position built by the manager, by id
    active_positions,       \* keys of PositionManager.active_positions, in dict order
    position_history,       \* PositionManager.position_history (ids)
    total_positions_opened, \* PositionManager.total_positions_opened
    total_positions_closed, \* PositionManager.total_positions_closed
    venue,                  \* positions open on the venues: [exchange, token]
    in_flight,              \* leg orders submitted, not settled, awaited by nobody
    next_order,             \* number of the next open attempt that places orders
    loop,                   \* the _main_trading_loop tasks
    mon,                    \* the PositionManager._monitoring_loop task
    caller,                 \* the task that calls initialize / start / stop
    stopper,                \* the ArbitrageEngine.stop call of a task
    closing,                \* the close_position call a task is suspended in
    current_snapshot,       \* FundingRateOracle.current_snapshot (<<>> is None)
    total_updates,          \* FundingRateOracle.total_updates
    updating,               \* the update_funding_rates call in progress
    overlapping,            \* a second update_funding_rates call under way beside it
    last_read,              \* the list the last read of the opportunities returned
    built,                  \* an ArbitrageOpportunity under construction and its orders
    day                     \* the local date and ArbitrageEngine.daily_start_time's date

\* The oracle's cache and the opportunity a caller builds: no action of the
\* engine or of the position manager writes them.
oracle_vars == << current_snapshot, total_updates, updating, overlapping, last_read, built >>

vars == << state, error_count, connectors, is_connected, oracle, position_manager,
           positions_opened_today, max_daily_loss, max_concurrent_positions, positions, active_positions, position_history, total_positions_opened,
           total_positions_closed, venue, in_flight, next_order, loop, mon, caller,
           stopper, closing, oracle_vars, day >>

engine_vars == << state, error_count, connectors, is_connected, oracle, position_manager,
                  positions_opened_today, max_daily_loss, max_concurrent_positions, oracle_vars, day >>
pm_vars == << positions, active_positions, position_history, total_positions_opened,
              total_positions_closed >>

ActiveSet == SeqToSet(active_positions)

\* No update_funding_rates call in progress.  ret is what the last call handed
\* back: "none" (no call yet), "snapshot", or "raised".
IdleUpdate(ret) ==
    [ pc |-> "idle", start_time |-> 0, asked |-> {},
      results |-> [ x \in OracleExchanges |-> << >> ], ret |-> ret ]

\* The engine as constructed: daily_start_time is the midnight of the day of
\* construction.  now and start are dates, counted in days; completed says
\* that a trading cycle has returned since the local date last changed.
StartDay == [ now |-> 0, start |-> 0, completed |-> FALSE ]

\* The oracle as constructed: no snapshot, no update made, nothing read.  The
\* specifications of the engine and of the position manager carry the oracle
\* as the flags of `oracle` and the opportunities as OppInputs; the cache's
\* contents are followed by SpecOracle.
CacheAtRest ==
    /\ current_snapshot = << >>
    /\ total_updates = 0
    /\ updating = IdleUpdate("none")
    /\ overlapping = IdleUpdate("none")
    /\ last_read = << >>
    /\ built = << >>

\* A task record of a main loop that is not in a call.  what / ret say how the
\* last try_open_position went and what it returned, repl that it was called
\* by consider_position_replacement after a close; fails counts the cycles in
\* a row that ended in the loop's except clause; checks holds what the two
\* gathered balance checks of the call under way gave.
IdleLoop(pc) ==
    [ pc |-> pc, left |-> 0, opp |-> << >>, long |-> "none", short |-> "none",
      order |-> 0, size |-> 0, what |-> "none", ret |-> "none", repl |-> FALSE,
      fails |-> 0, checks |-> << >> ]

NoStop == [ pc |-> "none", emergency |-> FALSE, todo |-> << >>, conns |-> {} ]

\* The calling task between two calls: the last call it made, what it got,
\* the exception the call caught on its way ("" for none), and the connectors
\* that answered the pings of the last initialize().
IdleCaller(op, ret, raised, pinged) ==
    [ pc |-> "idle", op |-> op, ret |-> ret, raised |-> raised, todo |-> << >>,
      pinged |-> pinged ]

\* ------------------------------------------------- PositionManager: opening

\* The manager's collections and the venues, as one value the operations below
\* transform; SetPM writes it back.
PM ==
    [ positions |-> positions, active |-> active_positions,
      history |-> position_history, opened |-> total_positions_opened,
      closed |-> total_positions_closed, venue |-> venue ]

SetPM(s) ==
    /\ positions' = s.positions
    /\ active_positions' = s.active
    /\ position_history' = s.history
    /\ total_positions_opened' = s.opened
    /\ total_positions_closed' = s.closed
    /\ venue' = s.venue

\* A capacity test that is off by one: it still lets a position in when the
\* active set is full.
BelowCapacityLax(n) == n <= max_concurrent_positions

\* len(self.active_positions) < self.max_positions, the test both
\* _can_open_position and the engine's _evaluate_opportunity make (max_positions
\* is config.trading.max_concurrent_positions).
BelowCapacity(n) == n < max_concurrent_positions

\* An admission check that has lost its loop over the active positions.
AdmissionVerdictNoDup(opp, s) ==
    IF ~(Len(s.active) < max_concurrent_positions) THEN "full"
    ELSE IF ~should_execute(opp, min_spread_threshold) THEN "not_executable"
    ELSE "ok"

\* PositionManager._can_open_position, check by check: "ok", or the check
\* that returned False.
AdmissionVerdict(opp, s) ==
    IF ~BelowCapacity(Len(s.active)) THEN "full"
    ELSE IF \E i \in 1..Len(s.active) :
               /\ s.positions[s.active[i]].pair_name = opp.pair_name
               /\ s.positions[s.active[i]].token = opp.token
    THEN "duplicate"
    ELSE IF ~should_execute(opp, min_spread_threshold) THEN "not_executable"
    ELSE "ok"

_can_open_position(opp, s) == AdmissionVerdict(opp, s) = "ok"

\* PositionManager._validate_trading_requirements up to its await: both
\* connectors exist and are connected.
ConnectorsReady(opp, conn) ==
    /\ opp.exchange_a \in connectors /\ opp.exchange_b \in connectors
    /\ conn[opp.exchange_a] /\ conn[opp.exchange_b]

\* The verdict of _validate_trading_requirements on the two gathered
\* pre-checks ("true", "false" or "raise"): all() over the results that are
\* not exceptions.
BalanceChecksPass(check_a, check_b) ==
    \A c \in {check_a, check_b} : c = "raise" \/ c = "true"

\* _open_arbitrage_position: the venue of the BUY and of the SELL order.
long_exchange(opp) ==
    IF opp.side_a = "long" THEN opp.exchange_a ELSE opp.exchange_b
short_exchangeSame(opp) == long_exchange(opp)
short_exchange(opp) ==
    IF opp.side_b = "short" THEN opp.exchange_b ELSE opp.exchange_a

\* _open_arbitrage_position: the Position built once both orders are filled.
\* Its id is the number of the open attempt (the code draws a uuid).  size is
\* position_size_tokens, which both ExchangePositions get (size_a, size_b).
NewPosition(opp, order, size, fill_long, fill_short, fees) ==
    [ id |-> order,
      pair_name |-> opp.pair_name,
      token |-> opp.token,
      exchange_a |-> long_exchange(opp),
      exchange_b |-> short_exchange(opp),
      side_a |-> "long",
      side_b |-> "short",
      size |-> size,
      size_a |-> size,
      size_b |-> size,
      entry_a |-> fill_long,
      entry_b |-> fill_short,
      current_a |-> 0,
      current_b |-> 0,
      size_usd |-> position_size_usd,
      funding_rate_a |-> opp.funding_rate_a,
      funding_rate_b |-> opp.funding_rate_b,
      current_spread |-> opp.spread,
      realized_pnl |-> 0,
      unrealized_pnl |-> 0,
      total_fees_paid |-> fees,
      status |-> "ACTIVE",
      age |-> 0 ]

\* A registration that counts an open only while no position has been closed.
RegisterUncounted(s, p) ==
    [ s EXCEPT !.positions = (p.id :> p) @@ s.positions,
               !.active = Append(s.active, p.id),
               !.opened = IF s.history = << >> THEN s.opened + 1 ELSE s.opened ]

\* try_open_position after _open_arbitrage_position returned a Position.
Register(s, p) ==
    [ s EXCEPT !.positions = (p.id :> p) @@ s.positions,
               !.active = Append(s.active, p.id),
               !.opened = s.opened + 1 ]

\* ------------------------------------------------- PositionManager: closing

\* close_position up to its await: the position is there and becomes CLOSING.
CloseBegin(s, id) ==
    [ s EXCEPT !.positions[id].status = "CLOSING" ]

\* A close that pops the id instead of deleting it: the second of two
\* overlapping closes goes through like the first.
CloseEndLax(s, id, ok_a, ok_b, fee) ==
    LET p == s.positions[id]
        total_fees == (IF ok_a THEN fee ELSE 0) + (IF ok_b THEN fee ELSE 0)
        closed == [ p EXCEPT !.status = "CLOSED", !.realized_pnl = net_pnl(p),
                             !.total_fees_paid = p.total_fees_paid + total_fees,
                             !.unrealized_pnl = 0 ]
    IN  [ s EXCEPT !.positions[id] = closed,
                   !.active = Remove(s.active, id),
                   !.history = Append(s.history, id),
                   !.closed = s.closed + 1 ]

\* close_position after _close_exchange_positions has gathered the two closing
\* orders (ok_a, ok_b: the order went through).  fee is what one closing order
\* costs.  Position.close_position runs before the del, which raises KeyError
\* when another close removed the id meanwhile.
CloseEnd(s, id, ok_a, ok_b, fee) ==
    LET p == s.positions[id]
        total_fees == (IF ok_a THEN fee ELSE 0) + (IF ok_b THEN fee ELSE 0)
        final_pnl == net_pnl(p)
        closed == [ p EXCEPT !.status = "CLOSED", !.realized_pnl = final_pnl,
                             !.total_fees_paid = p.total_fees_paid + total_fees,
                             !.unrealized_pnl = 0 ]
        left == { l \in s.venue :
                    ~(l.token = p.token
                      /\ ((ok_a /\ l.exchange = p.exchange_a)
                          \/ (ok_b /\ l.exchange = p.exchange_b))) }
    IN  IF id \in SeqToSet(s.active)
        THEN [ s EXCEPT !.positions[id] = closed,
                        !.active = Remove(s.active, id),
                        !.history = Append(s.history, id),
                        !.closed = s.closed + 1,
                        !.venue = left ]
        ELSE [ s EXCEPT !.positions[id] = [ closed EXCEPT !.status = "ERROR" ],
                        !.venue = left ]

\* A venue leg the connector's close_position can close.
HasLeg(s, exchange, token) ==
    \E l \in s.venue : l.exchange = exchange /\ l.token = token

\* The outcomes the two closing orders of a position can have: closing a
\* venue position that is not there raises.
CloseOutcomes(s, id) ==
    { o \in BOOLEAN \X BOOLEAN :
        /\ o[1] => HasLeg(s, s.positions[id].exchange_a, s.positions[id].token)
        /\ o[2] => HasLeg(s, s.positions[id].exchange_b, s.positions[id].token) }

\* PositionManager._find_worst_position: sorted() is stable, so among equal
\* health scores the first in dict order wins.
_find_worst_position(s) ==
    LET idx == CHOOSE i \in 1..Len(s.active) :
                 \A j \in 1..Len(s.active) :
                    \/ health_score(s.positions[s.active[i]])
                         < health_score(s.positions[s.active[j]])
                    \/ (health_score(s.positions[s.active[i]])
                          = health_score(s.positions[s.active[j]]) /\ i <= j)
    IN  s.active[idx]

\* A replacement test that is content with any improvement at all.
ReplacementBetterLax(opp, p) ==
    LET existing == IF health_score(p) > 0 THEN health_score(p) ELSE 10
    IN  risk_adjusted_score(opp) > 2000 * existing

\* consider_position_replacement: _calculate_replacement_score(...) > 1.5.
\* risk_adjusted_score carries a factor 2000; 10 is the divisor the code uses
\* for a health score that is not positive.
ReplacementBetter(opp, p) ==
    LET existing == IF health_score(p) > 0 THEN health_score(p) ELSE 10
    IN  risk_adjusted_score(opp) * ReplacementDen > ReplacementNum * 2000 * existing

\* ------------------------------------------------ inputs from the venues

\* The answer of a venue query: << value >>, or << >> when the call raised.
Answers(values) == { << >> } \cup { << v >> : v \in values }

\* Funding rates (1e-4): the pairs (rate_a, rate_b) the oracle has collected
\* for a venue pair, and what the venues report when a position is evaluated.
OracleRates(token) ==
    IF token = "BTC" THEN { << 10, -10 >> } ELSE { << -10, 10 >> }
MarkRates == { << << 10 >>, << 10 >> >>, << << >>, << >> >> }
\* Last prices the venues report when a position is opened (0 is a missing
\* price, None) and when it is evaluated.
OpenPrices == {0, 100}
MarkPrices == { << << 103 >>, << 103 >> >>, << << >>, << >> >> }
\* What a filled market order reports: its average fill price and its fee.
FillPrice == 100
OrderFee == 1

\* The opportunities a trading cycle works on: the ones of the oracle's
\* snapshot that pass _get_best_opportunities (score >= 30, spread >= the
\* minimum, should_execute).
OppInputs ==
    { o \in UNION { { create_opportunity(tok, pair, r[1], r[2], FALSE) :
                       pair \in SeqToSet(supported_pairs), r \in OracleRates(tok) } :
                     tok \in Tokens } :
        o.score >= 300 /\ o.spread >= min_spread_threshold
        /\ should_execute(o, min_spread_threshold) }

\* ------------------------------------------------- the trading cycle's body

\* What try_open_position hands to its caller: the Position, or None from
\* every path that did not build one (the admission check, the pre-check, and
\* the except clause that catches TradingError).
try_open_result(what) == IF what = "opened" THEN "Position" ELSE "None"

\* try_open_position / consider_position_replacement returned to
\* _evaluate_opportunity, which goes on to the next opportunity of the cycle.
\* `what` is what happened in the call, `ret` what the caller got.
Returned(rec, what) ==
    [ IdleLoop("cycle") EXCEPT !.left = rec.left - 1, !.what = what,
                               !.ret = try_open_result(what), !.repl = rec.repl ]

\* try_open_position from its start to its first await (the gathered balance
\* checks) or to its return.  `o` is the opportunity with the clock applied.
TryOpenStart(t, o, s, repl) ==
    IF ~_can_open_position(o, s)
    THEN loop' = [ loop EXCEPT ![t] = Returned([ @ EXCEPT !.repl = repl ],
                                               AdmissionVerdict(o, s)) ]
    ELSE IF ~ConnectorsReady(o, is_connected)
    THEN loop' = [ loop EXCEPT ![t] = Returned([ @ EXCEPT !.repl = repl ], "precheck") ]
    ELSE loop' = [ loop EXCEPT ![t] = [ @ EXCEPT !.pc = "validate", !.opp = <<o>>,
                                                 !.repl = repl ] ]

\* ArbitrageEngine._evaluate_opportunity for the next opportunity of the cycle,
\* up to the first await.  now_stale: more than ten minutes have passed since
\* the oracle detected it.
EvaluateOpportunity(t, opp, now_stale) ==
    LET o == [ opp EXCEPT !.stale = now_stale ] IN
    /\ loop[t].pc = "cycle" /\ loop[t].left > 0
    /\ position_manager # << >>
    /\ IF BelowCapacity(Len(active_positions))
       THEN /\ TryOpenStart(t, o, PM, FALSE)
            /\ UNCHANGED << pm_vars, venue, closing >>
       ELSE LET worst == _find_worst_position(PM) IN
            IF ReplacementBetter(o, positions[worst])
            THEN /\ SetPM(CloseBegin(PM, worst))
                 /\ closing' = [ closing EXCEPT ![t] = <<worst>> ]
                 /\ loop' = [ loop EXCEPT ![t] = [ @ EXCEPT !.pc = "repl_close", !.opp = <<o>>,
                                                            !.repl = TRUE ] ]
            ELSE /\ loop' = [ loop EXCEPT ![t] = Returned([ @ EXCEPT !.repl = FALSE ],
                                                           "not_better") ]
                 /\ UNCHANGED << pm_vars, venue, closing >>
    /\ UNCHANGED << engine_vars, in_flight, next_order, mon, caller, stopper >>

\* consider_position_replacement after close_position(worst) returned: it
\* opens the new opportunity with try_open_position.
ReplacementClosed(t, ok_a, ok_b, now_stale) ==
    /\ loop[t].pc = "repl_close"
    /\ << ok_a, ok_b >> \in CloseOutcomes(PM, closing[t][1])
    /\ LET s == CloseEnd(PM, closing[t][1], ok_a, ok_b, OrderFee)
           o == [ loop[t].opp[1] EXCEPT !.stale = @ \/ now_stale ]
       IN  /\ SetPM(s)
           /\ TryOpenStart(t, o, s, TRUE)
    /\ closing' = [ closing EXCEPT ![t] = << >> ]
    /\ UNCHANGED << engine_vars, in_flight, next_order, mon, caller, stopper >>

\* _validate_trading_requirements after its gather, then
\* _open_arbitrage_position up to the price query: the oracle's opportunities
\* carry no price, so the long venue is asked for one.
BalanceChecked(t, check_a, check_b) ==
    /\ loop[t].pc = "validate"
    /\ IF BalanceChecksPass(check_a, check_b)
       THEN /\ loop' = [ loop EXCEPT ![t] = [ @ EXCEPT !.pc = "price",
                                                       !.checks = << check_a, check_b >> ] ]
       ELSE /\ loop' = [ loop EXCEPT ![t] = Returned(@, "precheck") ]
    /\ UNCHANGED << engine_vars, pm_vars, venue, in_flight, next_order, mon, caller,
                    stopper, closing >>

\* _open_arbitrage_position after get_market_data: price is << last_price >>
\* (0 for None), or << >> when the query raised.  With a price both market
\* orders are submitted together.
PriceFetched(t, price) ==
    /\ loop[t].pc = "price"
    /\ IF price # << >> /\ price[1] # 0
       THEN /\ next_order <= MaxOrders
            /\ loop' = [ loop EXCEPT ![t] = [ @ EXCEPT !.pc = "orders", !.long = "pending",
                                                       !.short = "pending",
                                                       !.order = next_order,
                                                       !.size = position_size_usd \div price[1] ] ]
            /\ next_order' = next_order + 1
       ELSE /\ loop' = [ loop EXCEPT ![t] = Returned(@, "no_price") ]
            /\ UNCHANGED next_order
    /\ UNCHANGED << engine_vars, pm_vars, venue, in_flight, mon, caller, stopper, closing >>

\* The venue position a filled leg order leaves: a venue holds one position
\* per symbol.
Leg(exchange, token) == [ exchange |-> exchange, token |-> token ]

LoopLeg(t, side) ==
    Leg(IF side = "long" THEN long_exchange(loop[t].opp[1])
        ELSE short_exchange(loop[t].opp[1]),
        loop[t].opp[1].token)

\* One of the two gathered place_market_order calls settles at its venue.
LegSettles(t, side, filled) ==
    /\ loop[t].pc = "orders"
    /\ loop[t][side] = "pending"
    /\ loop' = [ loop EXCEPT ![t][side] = IF filled THEN "filled" ELSE "failed" ]
    /\ venue' = IF filled THEN venue \cup {LoopLeg(t, side)} ELSE venue
    /\ UNCHANGED << engine_vars, pm_vars, in_flight, next_order, mon, caller, stopper,
                    closing >>

\* An outcome that takes one fill for an opened position.
OpenOutcomeLax(long, short) ==
    IF "filled" \in {long, short} THEN "opened"
    ELSE IF long = "failed" /\ short = "failed" THEN "both_failed"
    ELSE "one_failed_one_pending"

\* What the gathered orders amount to when the gather hands control back.
OpenOutcome(long, short) ==
    IF long = "filled" /\ short = "filled" THEN "opened"
    ELSE IF long = "failed" /\ short = "failed" THEN "both_failed"
    ELSE IF "filled" \in {long, short} THEN "partial"
    ELSE "one_failed_one_pending"

\* asyncio.gather without return_exceptions hands back both results once both
\* orders are filled, and raises as soon as one of them has failed; the other
\* order is not cancelled and is awaited by nobody from then on.
GatherDone(long, short) ==
    (long = "filled" /\ short = "filled") \/ "failed" \in {long, short}

\* _open_arbitrage_position after the gather, and the rest of
\* try_open_position: a Position is built and registered only from two fills.
OrdersReturned(t) ==
    LET r == loop[t]
        what == OpenOutcome(r.long, r.short)
    IN
    /\ r.pc = "orders"
    /\ GatherDone(r.long, r.short)
    /\ IF what = "opened"
       THEN /\ SetPM(Register(PM, NewPosition(r.opp[1], r.order, r.size,
                                              FillPrice, FillPrice, 2 * OrderFee)))
            /\ loop' = [ loop EXCEPT ![t] = Returned(@, what) ]
            /\ positions_opened_today' = positions_opened_today + 1
            /\ UNCHANGED in_flight
       ELSE /\ loop' = [ loop EXCEPT ![t] = Returned(@, what) ]
            /\ in_flight' = in_flight \cup
                   { LoopLeg(t, side) : side \in { x \in {"long", "short"} : r[x] = "pending" } }
            /\ UNCHANGED << pm_vars, venue, positions_opened_today >>
    /\ UNCHANGED << state, error_count, connectors, is_connected, oracle, position_manager,
                    max_daily_loss, oracle_vars, day, max_concurrent_positions, next_order, mon, caller, stopper, closing >>

\* An order nobody awaits any more settles at its venue.
InFlightSettles(leg, filled) ==
    /\ leg \in in_flight
    /\ in_flight' = in_flight \ {leg}
    /\ venue' = IF filled THEN venue \cup {leg} ELSE venue
    /\ UNCHANGED << engine_vars, pm_vars, next_order, loop, mon, caller, stopper,
                    closing >>

\* ------------------------------------------------------ ArbitrageEngine.stop

\* The engine fields stop() writes, as one value; SetEng writes it back.
Eng ==
    [ state |-> state, oracle |-> oracle, manager |-> position_manager,
      conn |-> is_connected ]

SetEng(e) ==
    /\ state' = e.state
    /\ oracle' = e.oracle
    /\ position_manager' = e.manager
    /\ is_connected' = e.conn

\* What stop() has still to do, as a list of steps.
Item(k, id, x) == [ k |-> k, id |-> id, x |-> x ]

\* close_all_positions: one close_position call per key of the active dict at
\* the time of the call, awaited one after the other.
CloseItems(active) == [ i \in 1..Len(active) |-> Item("close", active[i], "") ]

\* The connectors dict in its insertion order (get_enabled_exchanges).
ExchangeOrder == << "binance", "hyperliquid" >>

DisconnectItems(conns) ==
    LET sel == SelectSeq(ExchangeOrder, LAMBDA x : x \in conns)
    IN  [ i \in 1..Len(sel) |-> Item("disc", 0, sel[i]) ]

\* stop() from its first statement: the state, the oracle's stop, and the
\* list of what follows.
StopItems(emergency, s, e) ==
    (IF e.manager # << >>
     THEN (IF emergency THEN CloseItems(s.active) ELSE << >>) \o << Item("pm_stop", 0, "") >>
     ELSE << >>)
    \o << Item("disc_all", 0, ""), Item("finish", 0, "") >>

StopEntered(emergency, e) ==
    [ e EXCEPT !.state = IF emergency THEN "EMERGENCY_STOP" ELSE "STOPPING",
               !.oracle = IF @ = << >> THEN @ ELSE << [ @[1] EXCEPT !.is_running = FALSE ] >> ]

\* stop() runs on until a call really suspends: a close_position of a position
\* that is still active, or the disconnect of a connector that has a client.
\* The for loop over connectors.values() raises RuntimeError when the dict has
\* grown since the loop began, and any exception leaves the state ERROR.
\* The head of the returned todo is the call it is suspended in; an empty todo
\* says stop() has returned.
RECURSIVE StopAdvance(_, _, _, _)
StopAdvance(s, e, todo, conns) ==
    IF todo = << >> THEN [ s |-> s, e |-> e, todo |-> todo, conns |-> conns ]
    ELSE
    LET it == Head(todo)
        rest == Tail(todo)
    IN  CASE it.k = "close" ->
               IF it.id \in SeqToSet(s.active)
               THEN [ s |-> CloseBegin(s, it.id), e |-> e, todo |-> todo, conns |-> conns ]
               ELSE StopAdvance(s, e, rest, conns)
          [] it.k = "pm_stop" ->
               StopAdvance(s, [ e EXCEPT !.manager = << [ @[1] EXCEPT !.is_running = FALSE ] >> ],
                           CloseItems(s.active) \o rest, conns)
          [] it.k = "disc_all" ->
               StopAdvance(s, e, DisconnectItems(connectors) \o rest, connectors)
          [] it.k = "disc" ->
               IF connectors # conns
               THEN [ s |-> s, e |-> [ e EXCEPT !.state = "ERROR" ], todo |-> << >>,
                      conns |-> conns ]
               ELSE IF e.conn[it.x]
               THEN [ s |-> s, e |-> e, todo |-> todo, conns |-> conns ]
               ELSE StopAdvance(s, e, rest, conns)
          [] OTHER ->
               [ s |-> s,
                 e |-> [ e EXCEPT !.state = IF connectors # conns THEN "ERROR" ELSE "STOPPED" ],
                 todo |-> << >>, conns |-> conns ]

\* The stop() call of task t has moved on to r.
ApplyStop(t, emergency, r) ==
    /\ SetPM(r.s)
    /\ SetEng(r.e)
    /\ stopper' = [ stopper EXCEPT ![t] =
                      IF r.todo = << >> THEN NoStop
                      ELSE [ pc |-> "run", emergency |-> emergency, todo |-> r.todo,
                             conns |-> r.conns ] ]
    /\ closing' = [ closing EXCEPT ![t] =
                      IF r.todo # << >> /\ Head(r.todo).k = "close"
                      THEN << Head(r.todo).id >> ELSE << >> ]

\* stop(emergency) called by task t, up to its first suspension.
StopCalled(t, emergency) ==
    StopAdvance(PM, StopEntered(emergency, Eng), StopItems(emergency, PM, Eng), {})

\* What follows the stop() of a task: the main loop breaks once its stop()
\* has returned; the calling task gets None.  fails is the loop's count of
\* failed cycles in a row.
AfterStop(t, r, fails) ==
    IF t \in LoopIds
    THEN /\ loop' = [ loop EXCEPT ![t] =
                        [ IdleLoop(IF r.todo = << >> THEN "done" ELSE "stopping")
                            EXCEPT !.fails = fails ] ]
         /\ UNCHANGED caller
    ELSE /\ caller' = IF r.todo = << >> THEN IdleCaller("stop", "None", "", {})
                      ELSE [ IdleCaller("stop", "none", "", {}) EXCEPT !.pc = "stop" ]
         /\ UNCHANGED loop

\* A close_position call of stop()'s close_all_positions has come back.
StopCloseDone(t, ok_a, ok_b) ==
    /\ stopper[t].pc = "run"
    /\ Head(stopper[t].todo).k = "close"
    /\ << ok_a, ok_b >> \in CloseOutcomes(PM, Head(stopper[t].todo).id)
    /\ LET s1 == CloseEnd(PM, Head(stopper[t].todo).id, ok_a, ok_b, OrderFee)
           r == StopAdvance(s1, Eng, Tail(stopper[t].todo), stopper[t].conns)
       IN  /\ ApplyStop(t, stopper[t].emergency, r)
           /\ AfterStop(t, r, IF t \in LoopIds THEN loop[t].fails ELSE 0)
    /\ UNCHANGED << error_count, connectors, positions_opened_today, max_daily_loss, oracle_vars, day,
                    max_concurrent_positions, in_flight, next_order, mon >>

\* A connector.disconnect() of stop() has come back, or has raised.
StopDisconnectDone(t, ok) ==
    /\ stopper[t].pc = "run"
    /\ Head(stopper[t].todo).k = "disc"
    /\ LET x == Head(stopper[t].todo).x
           r == IF ok
                THEN StopAdvance(PM, [ Eng EXCEPT !.conn[x] = FALSE ],
                                 Tail(stopper[t].todo), stopper[t].conns)
                ELSE [ s |-> PM, e |-> [ Eng EXCEPT !.state = "ERROR" ], todo |-> << >>,
                       conns |-> stopper[t].conns ]
       IN  /\ ApplyStop(t, stopper[t].emergency, r)
           /\ AfterStop(t, r, IF t \in LoopIds THEN loop[t].fails ELSE 0)
    /\ UNCHANGED << error_count, connectors, positions_opened_today, max_daily_loss, oracle_vars, day,
                    max_concurrent_positions, in_flight, next_order, mon >>

\* --------------------------------------------- the engine's safety checks

\* today_realized: net_pnl over the position history.
RECURSIVE today_realized(_, _)
today_realized(seq, ps) ==
    IF seq = << >> THEN 0 ELSE net_pnl(ps[Head(seq)]) + today_realized(Tail(seq), ps)

\* get_manager_stats()['total_unrealized_pnl'].
RECURSIVE total_unrealized_pnl(_, _)
total_unrealized_pnl(seq, ps) ==
    IF seq = << >> THEN 0
    ELSE ps[Head(seq)].unrealized_pnl + total_unrealized_pnl(Tail(seq), ps)

\* _calculate_current_daily_pnl <= threshold (1e-3): net P&L of the history
\* plus unrealized P&L of the active positions, over positions_opened_today *
\* position_size_usd; 0.0 when that capital is 0 or there is no manager.
DailyPnlAtMost(s, manager, opened_today, threshold) ==
    LET total == today_realized(s.history, s.positions)
                 + total_unrealized_pnl(s.active, s.positions)
        capital == opened_today * position_size_usd
    IN  IF manager # << >> /\ capital > 0
        THEN total * 1000 <= threshold * capital
        ELSE 0 <= threshold

ConnectedCount(conn) == Cardinality({ x \in connectors : conn[x] })

\* ArbitrageEngine._should_emergency_stop.
_should_emergency_stop(s, e, opened_today) ==
    \/ DailyPnlAtMost(s, e.manager, opened_today, max_daily_loss)
    \/ DailyPnlAtMost(s, e.manager, opened_today, emergency_close_threshold)
    \/ ConnectedCount(e.conn) < 2

\* FundingRateOracle.is_healthy: "True", "False", or "TypeError" -- the list of
\* checks is built in full, and with a snapshot it calls the bool that the
\* property FundingSnapshot.is_stale returns.
is_healthy(o, conn) ==
    IF o.has_snapshot THEN "TypeError"
    ELSE IF o.is_running /\ o.has_snapshot /\ ConnectedCount(conn) >= 2 /\ o.updated
    THEN "True" ELSE "False"

\* What `self.funding_oracle and self.funding_oracle.is_healthy()` gives.
OracleCheck(e) ==
    IF e.oracle = << >> THEN "False" ELSE is_healthy(e.oracle[1], e.conn)

\* ArbitrageEngine._verify_components_health, given the oracle's check:
\* "True", "False", or the exception that escapes it.
_verify_components_health(e, oracle_check) ==
    IF oracle_check = "TypeError" THEN "TypeError"
    ELSE IF /\ oracle_check = "True"
            /\ e.manager # << >> /\ e.manager[1].is_running
            /\ ConnectedCount(e.conn) >= 2
    THEN "True" ELSE "False"

\* A ceiling test that lets the count get one beyond the ceiling.
TooManyErrorsLax(count) == count > ErrorCeiling

\* _main_trading_loop: the error ceiling of the except clause.
TooManyErrors(count) == count >= ErrorCeiling

\* _main_trading_loop after _execute_trading_cycle returned: the emergency
\* check, then either stop(emergency=True) and break, or the sleep.
AfterCycle(t, opened_today) ==
    IF _should_emergency_stop(PM, Eng, opened_today)
    THEN LET r == StopCalled(t, TRUE)
         IN  /\ ApplyStop(t, TRUE, r)
             /\ AfterStop(t, r, 0)
    ELSE /\ loop' = [ loop EXCEPT ![t] = IdleLoop("head") ]
         /\ UNCHANGED << pm_vars, venue, state, oracle, position_manager, is_connected,
                         stopper, closing, caller >>

\* The while test of _main_trading_loop fails: the task ends.
LoopExit(t) ==
    /\ loop[t].pc = "head"
    /\ state # "RUNNING"
    /\ loop' = [ loop EXCEPT ![t] = IdleLoop("done") ]
    /\ UNCHANGED << engine_vars, pm_vars, venue, in_flight, next_order, mon, caller,
                    stopper, closing >>

\* One pass of the while loop up to its first await; gate is what
\* _verify_components_health gives.  With "True", n opportunities come out of
\* _get_best_opportunities, and with none the cycle returns at once.  Anything
\* else makes _execute_trading_cycle raise: the except clause counts the error
\* and, at the ceiling, calls stop(emergency=True) and breaks; below it, it
\* sleeps 60 s.
CycleStart(t, n, gate) ==
    /\ loop[t].pc = "head"
    /\ state = "RUNNING"
    /\ IF gate = "True"
       THEN /\ IF n = 0
               THEN AfterCycle(t, positions_opened_today)
               ELSE /\ loop' = [ loop EXCEPT ![t] = [ IdleLoop("cycle") EXCEPT !.left = n ] ]
                    /\ UNCHANGED << pm_vars, venue, state, oracle, position_manager,
                                    is_connected, stopper, closing, caller >>
            /\ UNCHANGED error_count
       ELSE /\ error_count < MaxErrorCount
            /\ error_count' = error_count + 1
            /\ IF TooManyErrors(error_count + 1)
               THEN LET r == StopCalled(t, TRUE)
                    IN  /\ ApplyStop(t, TRUE, r)
                        /\ AfterStop(t, r, loop[t].fails + 1)
               ELSE /\ loop' = [ loop EXCEPT ![t] =
                                   [ IdleLoop("head") EXCEPT !.fails = loop[t].fails + 1 ] ]
                    /\ UNCHANGED << pm_vars, venue, state, oracle, position_manager,
                                    is_connected, stopper, closing, caller >>
    /\ UNCHANGED << connectors, positions_opened_today, max_daily_loss, oracle_vars,
                    max_concurrent_positions, in_flight, next_order, mon >>

\* The pass with the date left out of the state: no statement of the pass up
\* to its first await reads or writes daily_start_time.
CycleBegin(t, n, gate) ==
    /\ CycleStart(t, n, gate)
    /\ UNCHANGED day

\* The for loop over the opportunities is through: _update_daily_metrics
\* (new_day: the date has changed since daily_start_time), then the emergency
\* check.
CycleMetrics(t, new_day) ==
    /\ loop[t].pc = "cycle" /\ loop[t].left = 0
    /\ LET today == IF new_day THEN 0 ELSE positions_opened_today
       IN  /\ positions_opened_today' = today
           /\ AfterCycle(t, today)
    /\ UNCHANGED << error_count, connectors, max_daily_loss, oracle_vars, max_concurrent_positions,
                    in_flight, next_order, mon >>

\* The end of the cycle with the date an input: new_day is what the
\* comparison of now.date() with daily_start_time.date() gives.
CycleEnd(t, new_day) ==
    /\ CycleMetrics(t, new_day)
    /\ UNCHANGED day

\* stop(emergency) called from outside the main loop.
CallerStop(emergency) ==
    /\ caller.pc = "idle"
    /\ LET r == StopCalled("caller", emergency)
       IN  /\ ApplyStop("caller", emergency, r)
           /\ AfterStop("caller", r, 0)
    /\ UNCHANGED << error_count, connectors, positions_opened_today, max_daily_loss, oracle_vars, day,
                    max_concurrent_positions, in_flight, next_order, mon >>

\* ------------------------------------------ PositionManager._monitoring_loop

\* The monitoring loop's place: cur is the position under evaluation, n the
\* size of the dict when the pass began, marked the ids queued for closing,
\* raised whether a price query of the evaluation under way raised.
MonIdle(pc) == [ pc |-> pc, cur |-> 0, n |-> 0, marked |-> << >>, raised |-> FALSE ]

\* _update_position_prices after its gather: a leg's current_price becomes the
\* last_price its venue reported (<< price >>), unless the query raised (<< >>).
UpdatePrices(p, price_a, price_b) ==
    [ p EXCEPT !.current_a = IF price_a = << >> THEN @ ELSE price_a[1],
               !.current_b = IF price_b = << >> THEN @ ELSE price_b[1] ]

\* _update_funding_metrics after its gather, then _calculate_position_pnl.
UpdateFunding(p, rate_a, rate_b) ==
    LET fa == IF rate_a = << >> THEN p.funding_rate_a ELSE rate_a[1]
        fb == IF rate_b = << >> THEN p.funding_rate_b ELSE rate_b[1]
    IN  [ p EXCEPT !.funding_rate_a = fa,
                   !.funding_rate_b = fb,
                   !.current_spread = Abs(fa - fb),
                   !.unrealized_pnl =
                       ExchangePositionPnl(SideIsLongEnum(p.side_a), p.size, p.entry_a, p.current_a)
                       + ExchangePositionPnl(SideIsLongEnum(p.side_b), p.size, p.entry_b, p.current_b) ]

\* evaluate_all_positions, second loop: close_position for each marked id;
\* self.active_positions[position_id] raises KeyError for an id that has left
\* the dict, which ends the pass (the monitoring loop logs it and sleeps).
MonCloseNext(s, marked) ==
    IF marked = << >> \/ Head(marked) \notin SeqToSet(s.active)
    THEN /\ SetPM(s)
         /\ mon' = MonIdle("sleep")
         /\ closing' = [ closing EXCEPT !["mon"] = << >> ]
    ELSE /\ SetPM(CloseBegin(s, Head(marked)))
         /\ mon' = [ MonIdle("close") EXCEPT !.marked = Tail(marked) ]
         /\ closing' = [ closing EXCEPT !["mon"] = << Head(marked) >> ]

\* The monitoring loop wakes up: it ends when the manager was stopped, and
\* otherwise starts evaluate_all_positions, which goes into the first
\* position's price query.  (With no active position it sleeps again.)
MonWake ==
    /\ mon.pc = "sleep"
    /\ position_manager # << >>
    /\ IF ~position_manager[1].is_running
       THEN mon' = MonIdle("done")
       ELSE /\ active_positions # << >>
            /\ mon' = [ pc |-> "prices", cur |-> active_positions[1],
                        n |-> Len(active_positions), marked |-> << >>,
                        raised |-> FALSE ]
    /\ UNCHANGED << engine_vars, pm_vars, venue, in_flight, next_order, loop, caller,
                    stopper, closing >>

\* _evaluate_position between its two awaits.
MonPrices(price_a, price_b) ==
    /\ mon.pc = "prices"
    /\ positions' = [ positions EXCEPT ![mon.cur] = UpdatePrices(@, price_a, price_b) ]
    /\ mon' = [ mon EXCEPT !.pc = "funding",
                            !.raised = (price_a = << >> \/ price_b = << >>) ]
    /\ UNCHANGED << engine_vars, active_positions, position_history, total_positions_opened,
                    total_positions_closed, venue, in_flight, next_order, loop, caller,
                    stopper, closing >>

\* The rest of _evaluate_position, the should_close test, and the for loop's
\* next step: the dict iterator raises RuntimeError when the dict's size has
\* changed since the loop began, and otherwise yields the next entry after the
\* current one (entries are in insertion order, which is the order of the ids).
MonFunding(rate_a, rate_b) ==
    /\ mon.pc = "funding"
    /\ LET p == UpdateFunding(positions[mon.cur], rate_a, rate_b)
           s == [ PM EXCEPT !.positions[mon.cur] = p ]
           marked == IF should_close(p) THEN Append(mon.marked, mon.cur) ELSE mon.marked
           later == { id \in ActiveSet : id > mon.cur }
       IN  IF Len(active_positions) # mon.n
           THEN /\ SetPM(s)
                /\ mon' = MonIdle("sleep")
                /\ UNCHANGED closing
           ELSE IF later # {}
           THEN /\ SetPM(s)
                /\ mon' = [ mon EXCEPT !.pc = "prices", !.marked = marked,
                                       !.raised = FALSE,
                                       !.cur = CHOOSE id \in later : \A o \in later : id <= o ]
                /\ UNCHANGED closing
           ELSE MonCloseNext(s, marked)
    /\ UNCHANGED << engine_vars, in_flight, next_order, loop, caller, stopper >>

\* A close_position call of evaluate_all_positions has come back.
MonCloseDone(ok_a, ok_b) ==
    /\ mon.pc = "close"
    /\ << ok_a, ok_b >> \in CloseOutcomes(PM, closing["mon"][1])
    /\ MonCloseNext(CloseEnd(PM, closing["mon"][1], ok_a, ok_b, OrderFee), mon.marked)
    /\ UNCHANGED << engine_vars, in_flight, next_order, loop, caller, stopper >>

\* ----------------------------------------- the position manager at work

\* A running engine: initialize() and start() have succeeded with both
\* venues, and the main loop is about to test its while condition.  The
\* trading cycle gets beyond its health gate only if the oracle's check
\* passes (in Spec it never does, see GateNeverPasses); here that check is
\* taken as passed, so that the for loop of _execute_trading_cycle drives the
\* position manager's operations the way the engine calls them.  Nobody calls
\* stop() from outside, so the only stop is the loop's own and the while test
\* never fails at the loop's head.
InitPM ==
    /\ state = "RUNNING"
    /\ error_count = 0
    /\ connectors = Exchanges
    /\ is_connected = [ x \in Exchanges |-> TRUE ]
    /\ oracle = << [ is_running |-> TRUE, has_snapshot |-> TRUE, updated |-> TRUE ] >>
    /\ position_manager = << NewManager(TRUE, DefaultMaxPositionAge) >>
    /\ positions_opened_today = 0
    /\ max_daily_loss \in {-10}
    /\ max_concurrent_positions \in 1..MaxPositions
    /\ positions = << >>
    /\ active_positions = << >>
    /\ position_history = << >>
    /\ total_positions_opened = 0
    /\ total_positions_closed = 0
    /\ venue = {}
    /\ in_flight = {}
    /\ next_order = 1
    /\ loop = [ t \in LoopIds |-> IdleLoop(IF t = "loop1" THEN "head" ELSE "none") ]
    /\ mon = MonIdle("sleep")
    /\ caller = IdleCaller("none", "none", "", {})
    /\ stopper = [ t \in StopperIds |-> NoStop ]
    /\ closing = [ t \in TaskIds |-> << >> ]
    /\ CacheAtRest
    /\ day = StartDay

NextPM ==
    \/ \E t \in LoopIds, n \in 0..MaxCycleOpps :
          CycleBegin(t, n, _verify_components_health(Eng, "True"))
    \/ \E t \in LoopIds, opp \in OppInputs, now_stale \in BOOLEAN :
          EvaluateOpportunity(t, opp, now_stale)
    \/ \E t \in LoopIds, ok_a \in BOOLEAN, ok_b \in BOOLEAN, now_stale \in BOOLEAN :
          ReplacementClosed(t, ok_a, ok_b, now_stale)
    \/ \E t \in LoopIds, a \in {"true", "false", "raise"}, b \in {"true", "false", "raise"} :
          BalanceChecked(t, a, b)
    \/ \E t \in LoopIds, price \in Answers(OpenPrices) : PriceFetched(t, price)
    \/ \E t \in LoopIds, side \in {"long", "short"}, filled \in BOOLEAN :
          LegSettles(t, side, filled)
    \/ \E t \in LoopIds : OrdersReturned(t)
    \/ \E t \in LoopIds, new_day \in BOOLEAN : CycleEnd(t, new_day)
    \/ \E leg \in in_flight, filled \in BOOLEAN : InFlightSettles(leg, filled)
    \/ MonWake
    \/ \E a \in MarkPrices : MonPrices(a[1], a[2])
    \/ \E a \in MarkRates : MonFunding(a[1], a[2])
    \/ \E ok_a \in BOOLEAN, ok_b \in BOOLEAN : MonCloseDone(ok_a, ok_b)
    \/ \E t \in StopperIds, ok_a \in BOOLEAN, ok_b \in BOOLEAN : StopCloseDone(t, ok_a, ok_b)
    \/ \E t \in StopperIds : StopDisconnectDone(t, TRUE)

SpecPM == InitPM /\ [][NextPM]_vars

\* The same running engine with stop() called from outside while the main
\* loop works; the monitoring loop sleeps throughout.
NextStop ==
    \/ \E t \in LoopIds, n \in 0..MaxCycleOpps :
          CycleBegin(t, n, _verify_components_health(Eng, "True"))
    \/ \E t \in LoopIds : LoopExit(t)
    \/ \E t \in LoopIds, opp \in OppInputs, now_stale \in BOOLEAN :
          EvaluateOpportunity(t, opp, now_stale)
    \/ \E t \in LoopIds, a \in {"true", "false", "raise"}, b \in {"true", "false", "raise"} :
          BalanceChecked(t, a, b)
    \/ \E t \in LoopIds, price \in Answers(OpenPrices) : PriceFetched(t, price)
    \/ \E t \in LoopIds, side \in {"long", "short"}, filled \in BOOLEAN :
          LegSettles(t, side, filled)
    \/ \E t \in LoopIds : OrdersReturned(t)
    \/ \E t \in LoopIds, new_day \in BOOLEAN : CycleEnd(t, new_day)
    \/ \E leg \in in_flight, filled \in BOOLEAN : InFlightSettles(leg, filled)
    \/ \E emergency \in BOOLEAN : state = "RUNNING" /\ CallerStop(emergency)
    \/ \E t \in StopperIds, ok_a \in BOOLEAN, ok_b \in BOOLEAN : StopCloseDone(t, ok_a, ok_b)
    \/ \E t \in StopperIds, ok \in BOOLEAN : StopDisconnectDone(t, ok)

SpecStop == InitPM /\ [][NextStop]_vars

\* ----------------------------------- ArbitrageEngine.initialize and start

\* A start() that also runs initialize() again after a failure.
NeedsInitializeLax(st) == st \in {"STOPPED", "ERROR"}

\* start() runs initialize() only from STOPPED.
NeedsInitialize(st) == st = "STOPPED"

\* A slot for the task start() creates with asyncio.create_task.
FreeLoops == { t \in LoopIds : loop[t].pc \in {"none", "done"} }

\* initialize() from its first statement to the first await, the connect() of
\* the first enabled exchange.  op is the call the calling task made.
InitializeBegin(op) ==
    /\ state' = "STARTING"
    /\ caller' = [ IdleCaller(op, "none", "", {}) EXCEPT !.pc = "connect",
                                                         !.todo = ExchangeOrder ]
    /\ UNCHANGED << error_count, connectors, is_connected, oracle, position_manager,
                    positions_opened_today, max_daily_loss, oracle_vars, day, max_concurrent_positions,
                    pm_vars, venue, in_flight, next_order, loop, mon, stopper, closing >>

\* start() from `await self.funding_oracle.start()` on, up to the await of the
\* oracle's first update_funding_rates (which suspends when a connector is
\* connected), or to its return.  Without an oracle the attribute access
\* raises, and the except clause leaves ERROR.  PositionManager.start() and
\* the creation of the main loop task follow without a suspension.
StartComponents(e, pinged) ==
    IF e.oracle = << >>
    THEN /\ state' = "ERROR"
         /\ caller' = IdleCaller("start", "False", "AttributeError", pinged)
         /\ UNCHANGED << oracle, position_manager, loop >>
    ELSE IF ~e.oracle[1].is_running /\ ConnectedCount(e.conn) > 0
    THEN /\ oracle' = << [ e.oracle[1] EXCEPT !.is_running = TRUE ] >>
         /\ position_manager' = e.manager
         /\ state' = e.state
         /\ caller' = [ IdleCaller("start", "none", "", pinged) EXCEPT !.pc = "oracle_start" ]
         /\ UNCHANGED loop
    ELSE /\ FreeLoops # {}
         /\ oracle' = << [ is_running |-> TRUE, has_snapshot |-> TRUE, updated |-> TRUE ] >>
         /\ position_manager' = << [ e.manager[1] EXCEPT !.is_running = TRUE ] >>
         /\ state' = "RUNNING"
         /\ loop' = [ loop EXCEPT ![CHOOSE t \in FreeLoops : t = "loop1" \/ FreeLoops = {t}] =
                        IdleLoop("head") ]
         /\ caller' = IdleCaller("start", "True", "", pinged)

\* initialize() after _test_all_connections: with fewer than two answers the
\* ConnectionError is caught and the state is ERROR; otherwise a new oracle
\* and a new position manager are built and the state stays STARTING.
InitializeEnd(pinged) ==
    IF Cardinality(pinged) < 2
    THEN /\ state' = "ERROR"
         /\ caller' = IdleCaller(caller.op, "False", "ConnectionError", pinged)
         /\ UNCHANGED << oracle, position_manager, loop >>
    ELSE LET e == [ Eng EXCEPT !.oracle = << [ is_running |-> FALSE, has_snapshot |-> FALSE,
                                               updated |-> FALSE ] >>,
                               !.manager = << NewManager(FALSE, DefaultMaxPositionAge) >> ]
         IN  IF caller.op = "start"
             THEN StartComponents(e, pinged)
             ELSE /\ oracle' = e.oracle
                  /\ position_manager' = e.manager
                  /\ caller' = IdleCaller("initialize", "True", "", pinged)
                  /\ UNCHANGED << state, loop >>

\* The calling task calls initialize().
CallInitialize ==
    /\ caller.pc = "idle"
    /\ InitializeBegin("initialize")

\* The calling task calls start() on an engine that is not RUNNING (on a
\* RUNNING one start() returns True at once and changes nothing).
CallStart ==
    /\ caller.pc = "idle"
    /\ state # "RUNNING"
    /\ IF NeedsInitialize(state)
       THEN InitializeBegin("start")
       ELSE /\ StartComponents(Eng, {})
            /\ UNCHANGED << error_count, connectors, is_connected, positions_opened_today,
                            max_daily_loss, oracle_vars, day, max_concurrent_positions, pm_vars, venue,
                            in_flight, next_order, mon, stopper, closing >>

\* _create_connector: connect() of the next exchange has returned True, or has
\* raised; only a connected connector is put into the dict.  After the last
\* one _test_all_connections pings the connectors of the dict in turn.
ConnectDone(ok) ==
    /\ caller.pc = "connect"
    /\ LET x == Head(caller.todo)
           conns == IF ok THEN connectors \cup {x} ELSE connectors
           rest == Tail(caller.todo)
       IN  /\ connectors' = conns
           /\ is_connected' = IF ok THEN [ is_connected EXCEPT ![x] = TRUE ] ELSE is_connected
           /\ IF rest # << >>
              THEN /\ caller' = [ caller EXCEPT !.todo = rest ]
                   /\ UNCHANGED << state, oracle, position_manager, loop >>
              ELSE IF conns # {}
              THEN /\ caller' = [ caller EXCEPT !.pc = "ping",
                                                !.todo = SelectSeq(ExchangeOrder,
                                                                   LAMBDA y : y \in conns) ]
                   /\ UNCHANGED << state, oracle, position_manager, loop >>
              ELSE InitializeEnd({})
    /\ UNCHANGED << error_count, positions_opened_today, max_daily_loss, oracle_vars, day,
                    max_concurrent_positions, pm_vars, venue, in_flight, next_order, mon,
                    stopper, closing >>

\* _test_all_connections: the ping of the next connector has come back; a
\* connector without a client answers False.
PingDone(ok) ==
    /\ caller.pc = "ping"
    /\ ok => is_connected[Head(caller.todo)]
    /\ LET pinged == IF ok THEN caller.pinged \cup {Head(caller.todo)} ELSE caller.pinged
           rest == Tail(caller.todo)
       IN  IF rest # << >>
           THEN /\ caller' = [ caller EXCEPT !.todo = rest, !.pinged = pinged ]
                /\ UNCHANGED << state, oracle, position_manager, loop >>
           ELSE InitializeEnd(pinged)
    /\ UNCHANGED << error_count, connectors, is_connected, positions_opened_today,
                    max_daily_loss, oracle_vars, day, max_concurrent_positions, pm_vars, venue, in_flight,
                    next_order, mon, stopper, closing >>

\* FundingRateOracle.start: the first update_funding_rates has come back (it
\* swallows the venues' errors and always leaves a snapshot); start() goes on.
OracleStarted ==
    /\ caller.pc = "oracle_start"
    /\ FreeLoops # {}
    /\ StartComponents(Eng, caller.pinged)
    /\ UNCHANGED << error_count, connectors, is_connected, positions_opened_today,
                    max_daily_loss, oracle_vars, day, max_concurrent_positions, pm_vars, venue, in_flight,
                    next_order, mon, stopper, closing >>

\* --------------------------------------------------------- the engine

\* The engine as constructed: STOPPED, no connector, no oracle, no manager.
Init ==
    /\ state = "STOPPED"
    /\ error_count = 0
    /\ connectors = {}
    /\ is_connected = [ x \in Exchanges |-> FALSE ]
    /\ oracle = << >>
    /\ position_manager = << >>
    /\ positions_opened_today = 0
    /\ max_daily_loss \in {-10, 0}
    /\ max_concurrent_positions = MaxPositions
    /\ positions = << >>
    /\ active_positions = << >>
    /\ position_history = << >>
    /\ total_positions_opened = 0
    /\ total_positions_closed = 0
    /\ venue = {}
    /\ in_flight = {}
    /\ next_order = 1
    /\ loop = [ t \in LoopIds |-> IdleLoop("none") ]
    /\ mon = MonIdle("none")
    /\ caller = IdleCaller("none", "none", "", {})
    /\ stopper = [ t \in StopperIds |-> NoStop ]
    /\ closing = [ t \in TaskIds |-> << >> ]
    /\ CacheAtRest
    /\ day = StartDay

\* The calls of the calling task and the steps of the main loops.  The cycle
\* never gets beyond its health gate (GateNeverPasses), so the steps of the
\* cycle body are no part of this next-state relation; SpecPM has them.
Next ==
    \/ CallInitialize
    \/ CallStart
    \/ \E ok \in BOOLEAN : ConnectDone(ok)
    \/ \E ok \in BOOLEAN : PingDone(ok)
    \/ OracleStarted
    \/ \E emergency \in BOOLEAN : CallerStop(emergency)
    \/ \E t \in StopperIds, ok \in BOOLEAN : StopDisconnectDone(t, ok)
    \/ \E t \in LoopIds, n \in 0..MaxCycleOpps :
          CycleBegin(t, n, _verify_components_health(Eng, OracleCheck(Eng)))
    \/ \E t \in LoopIds : LoopExit(t)

Spec == Init /\ [][Next]_vars

\* Whenever a main loop is about to run a cycle, the health gate does not pass.
GateNeverPasses ==
    \A t \in LoopIds :
        (loop[t].pc = "head" /\ state = "RUNNING")
            => _verify_components_health(Eng, OracleCheck(Eng)) # "True"

\* ------------------------------------ the engine with a gate that can pass

\* The engine's life cycle as in Spec, with the oracle's check taken as passed
\* (as in SpecPM): the gate then fails exactly when the position manager is
\* not running or fewer than two connectors are connected, which a restart
\* after a failed stop() brings about.  The oracle hands no opportunity to the
\* cycle, so _execute_trading_cycle returns right after the gate.
NextLoop ==
    \/ CallInitialize
    \/ CallStart
    \/ \E ok \in BOOLEAN : ConnectDone(ok)
    \/ \E ok \in BOOLEAN : PingDone(ok)
    \/ OracleStarted
    \/ \E emergency \in BOOLEAN : CallerStop(emergency)
    \/ \E t \in StopperIds, ok \in BOOLEAN : StopDisconnectDone(t, ok)
    \/ \E t \in LoopIds : CycleBegin(t, 0, _verify_components_health(Eng, "True"))
    \/ \E t \in LoopIds : LoopExit(t)

SpecLoop == Init /\ [][NextLoop]_vars

\* ------------------------------------------- the monitoring loop over time

\* Values of config.risk_management.max_position_age_hours (hours).
ConfiguredMaxAges == {24, 168, 672}

\* Position.age_hours > hours, for a position in age class `age`.
AgeExceeds(age, hours) ==
    age > (IF hours = 24 THEN 0 ELSE IF hours = 168 THEN 1 ELSE 2)

\* Last prices the two venues report for a position under evaluation: the
\* same on both, prices below the fills (which ExchangePosition.pnl counts as
\* a gain on either leg), or both queries raise.
VenueMarks == MarkPrices \cup { << << 98 >>, << 99 >> >> }

\* Funding rates (1e-4) the long and the short venue report for a position
\* under evaluation: the same on both, a higher one at the long venue (the
\* hedge pays instead of collecting), or both queries raise.
VenueFunding == MarkRates \cup { << << 10 >>, << -10 >> >> }

\* datetime.now() moves on: the active positions get into the next age class.
HoursPass ==
    /\ \E id \in ActiveSet : positions[id].age < 3
    /\ positions' = [ id \in DOMAIN positions |->
                        IF id \in ActiveSet /\ positions[id].age < 3
                        THEN [ positions[id] EXCEPT !.age = @ + 1 ]
                        ELSE positions[id] ]
    /\ UNCHANGED << engine_vars, active_positions, position_history, total_positions_opened,
                    total_positions_closed, venue, in_flight, next_order, loop, mon, caller,
                    stopper, closing >>

\* The running engine of InitPM after its first try_open_position has
\* registered a position for one of the cycle's opportunities (both orders
\* filled at FillPrice), with a configured maximum age.
InitAge ==
    /\ state = "RUNNING"
    /\ error_count = 0
    /\ connectors = Exchanges
    /\ is_connected = [ x \in Exchanges |-> TRUE ]
    /\ oracle = << [ is_running |-> TRUE, has_snapshot |-> TRUE, updated |-> TRUE ] >>
    /\ \E hours \in ConfiguredMaxAges : position_manager = << NewManager(TRUE, hours) >>
    /\ positions_opened_today = 1
    /\ max_daily_loss = -10
    /\ max_concurrent_positions = 1
    /\ \E opp \in OppInputs :
          LET p == NewPosition(opp, 1, position_size_usd \div FillPrice,
                               FillPrice, FillPrice, 2 * OrderFee)
          IN  /\ positions = (1 :> p)
              /\ venue = { Leg(p.exchange_a, p.token), Leg(p.exchange_b, p.token) }
    /\ active_positions = << 1 >>
    /\ position_history = << >>
    /\ total_positions_opened = 1
    /\ total_positions_closed = 0
    /\ in_flight = {}
    /\ next_order = 2
    /\ loop = [ t \in LoopIds |-> IdleLoop(IF t = "loop1" THEN "head" ELSE "none") ]
    /\ mon = MonIdle("sleep")
    /\ caller = IdleCaller("none", "none", "", {})
    /\ stopper = [ t \in StopperIds |-> NoStop ]
    /\ closing = [ t \in TaskIds |-> << >> ]
    /\ CacheAtRest
    /\ day = StartDay

NextAge ==
    \/ HoursPass
    \/ MonWake
    \/ \E a \in VenueMarks : MonPrices(a[1], a[2])
    \/ \E a \in VenueFunding : MonFunding(a[1], a[2])
    \/ \E ok_a \in BOOLEAN, ok_b \in BOOLEAN : MonCloseDone(ok_a, ok_b)

SpecAge == InitAge /\ [][NextAge]_vars

\* ------------------------------------------------ two main loops at work

\* The running engine of InitPM after a second start() has created a second
\* _main_trading_loop task beside the first (start() keeps no reference to
\* the task it creates and stop() does not wait for it): both loops are at
\* the head of an iteration.  The monitoring loop sleeps throughout.
InitOverlap ==
    /\ state = "RUNNING"
    /\ error_count = 0
    /\ connectors = Exchanges
    /\ is_connected = [ x \in Exchanges |-> TRUE ]
    /\ oracle = << [ is_running |-> TRUE, has_snapshot |-> TRUE, updated |-> TRUE ] >>
    /\ position_manager = << NewManager(TRUE, DefaultMaxPositionAge) >>
    /\ positions_opened_today = 0
    /\ max_daily_loss = -10
    /\ max_concurrent_positions \in 1..MaxPositions
    /\ positions = << >>
    /\ active_positions = << >>
    /\ position_history = << >>
    /\ total_positions_opened = 0
    /\ total_positions_closed = 0
    /\ venue = {}
    /\ in_flight = {}
    /\ next_order = 1
    /\ loop = [ t \in LoopIds |-> IdleLoop("head") ]
    /\ mon = MonIdle("sleep")
    /\ caller = IdleCaller("none", "none", "", {})
    /\ stopper = [ t \in StopperIds |-> NoStop ]
    /\ closing = [ t \in TaskIds |-> << >> ]
    /\ CacheAtRest
    /\ day = StartDay

\* Each loop's cycle works on one opportunity.  No position is re-priced while
\* the monitoring loop sleeps, so no health score falls and no loss builds
\* up: no replacement is made and the emergency check of the loops never
\* trips, and the steps of close and stop are no part of this relation.
NextOverlap ==
    \/ \E t \in LoopIds : CycleBegin(t, 1, _verify_components_health(Eng, "True"))
    \/ \E t \in LoopIds, opp \in OppInputs, now_stale \in BOOLEAN :
          EvaluateOpportunity(t, opp, now_stale)
    \/ \E t \in LoopIds, a \in {"true", "false", "raise"}, b \in {"true", "false", "raise"} :
          BalanceChecked(t, a, b)
    \/ \E t \in LoopIds, price \in Answers(OpenPrices) : PriceFetched(t, price)
    \/ \E t \in LoopIds, side \in {"long", "short"}, filled \in BOOLEAN :
          LegSettles(t, side, filled)
    \/ \E t \in LoopIds : OrdersReturned(t)
    \/ \E t \in LoopIds, new_day \in BOOLEAN : CycleEnd(t, new_day)
    \/ \E leg \in in_flight, filled \in BOOLEAN : InFlightSettles(leg, filled)

SpecOverlap == InitOverlap /\ [][NextOverlap]_vars

\* ------------------------------------------------ the loop across midnight

\* The last day the clock reaches.
MaxDays == 1

\* The local date moves on by a day while the tasks are suspended.
DayPasses ==
    /\ day.now < MaxDays
    /\ day' = [ day EXCEPT !.now = day.now + 1, !.completed = FALSE ]
    /\ UNCHANGED << state, error_count, connectors, is_connected, oracle, position_manager,
                    positions_opened_today, max_daily_loss, max_concurrent_positions,
                    oracle_vars, pm_vars, venue, in_flight, next_order, loop, mon,
                    caller, stopper, closing >>

\* The pass of CycleStart with the date in the state.  With no opportunity
\* _execute_trading_cycle returns at "if not opportunities: return", ahead of
\* its call of _update_daily_metrics: the cycle has completed and
\* daily_start_time is as it was.
CycleBeginDated(t, n) ==
    /\ CycleStart(t, n, _verify_components_health(Eng, "True"))
    /\ day' = [ day EXCEPT !.completed = (n = 0) \/ day.completed ]

\* The end of a cycle that had opportunities: _update_daily_metrics compares
\* the dates, moves daily_start_time to the midnight of now and resets the
\* counter when they differ.
CycleEndDated(t) ==
    /\ CycleMetrics(t, day.now > day.start)
    /\ day' = [ day EXCEPT !.start = IF day.now > day.start THEN day.now ELSE day.start,
                           !.completed = TRUE ]

\* The running engine of InitPM with one loop, whose cycles find one
\* opportunity or none, and the clock.  The monitoring loop sleeps throughout
\* (see NextOverlap for what that leaves out).
NextDay ==
    \/ DayPasses
    \/ \E n \in 0..1 : CycleBeginDated("loop1", n)
    \/ \E opp \in OppInputs, now_stale \in BOOLEAN :
          EvaluateOpportunity("loop1", opp, now_stale)
    \/ \E a \in {"true", "false", "raise"}, b \in {"true", "false", "raise"} :
          BalanceChecked("loop1", a, b)
    \/ \E price \in Answers(OpenPrices) : PriceFetched("loop1", price)
    \/ \E side \in {"long", "short"}, filled \in BOOLEAN : LegSettles("loop1", side, filled)
    \/ OrdersReturned("loop1")
    \/ CycleEndDated("loop1")
    \/ \E leg \in in_flight, filled \in BOOLEAN : InFlightSettles(leg, filled)

SpecDay == InitPM /\ [][NextDay]_vars

\* ------------------------------------------------- the oracle's update

\* Every variable that is not the oracle's cache.
bot_vars == << state, error_count, connectors, is_connected, oracle, position_manager,
               positions_opened_today, max_daily_loss, max_concurrent_positions,
               pm_vars, venue, in_flight, next_order, loop, mon, caller, stopper,
               closing, day >>

\* Funding rates (1e-4) a venue reports for a token.
VenueRates == {-4, 10}

\* A venue's rates by token: << rate >>, or << >> for a token without a rate.
NoRates == [ t \in OracleTokens |-> << >> ]
HasRates(d) == \E t \in OracleTokens : d[t] # << >>

\* What connector.get_funding_rates(tokens) hands back when it does not raise:
\* a rate for each token asked that the venue lists.
BatchAnswers == [ OracleTokens -> Answers(VenueRates) ]
\* The per-token answers of connector.get_funding_rate in the fallback.
FallbackAnswers == [ OracleTokens -> Answers(VenueRates) ]

\* _collect_all_rates: the connectors a collection task is created for.
ActiveConnectorsLax(conns, conn) == conns
ActiveConnectors(conns, conn) == { x \in conns : conn[x] }

\* _collect_exchange_rates: the batch answer, or, when the batch call raised
\* (<< >>), the rates of the tokens whose single query answered.
_collect_exchange_rates(batch, fallback) ==
    IF batch # << >> THEN batch[1] ELSE fallback

\* _collect_all_rates after the gather: all_rates, by venue << rates >>, or
\* << >> for a venue that is no key of it.
_collect_all_ratesStrict(asked, results) ==
    [ x \in OracleExchanges |->
        IF x \in asked /\ \A y \in asked : HasRates(results[y][1])
        THEN results[x] ELSE << >> ]
_collect_all_rates(asked, results) ==
    [ x \in OracleExchanges |-> IF x \in asked THEN results[x] ELSE << >> ]

\* _detect_pair_opportunities: one opportunity per common token whose spread
\* reaches the minimum.  The code walks a set of tokens; the model takes them
\* in some fixed order.
RECURSIVE PairOpportunitiesOver(_, _, _, _, _)
PairOpportunitiesOver(tokens, pair_name, rates_a, rates_b, weekend) ==
    IF tokens = {} THEN << >>
    ELSE LET token == CHOOSE t \in tokens : TRUE
             rest == PairOpportunitiesOver(tokens \ {token}, pair_name, rates_a, rates_b,
                                           weekend)
             rate_a == rates_a[token][1]
             rate_b == rates_b[token][1]
         IN  IF Abs(rate_a - rate_b) < min_spread_threshold THEN rest
             ELSE << create_opportunity(token, pair_name, rate_a, rate_b, weekend) >> \o rest

_detect_pair_opportunities(pair_name, rates_a, rates_b, weekend) ==
    PairOpportunitiesOver({ t \in DOMAIN rates_a \cap DOMAIN rates_b :
                               rates_a[t] # << >> /\ rates_b[t] # << >> },
                          pair_name, rates_a, rates_b, weekend)

\* list.sort(key = risk_adjusted_score, reverse = True): stable, descending.
RECURSIVE InsertByScore(_, _)
InsertByScore(sorted, o) ==
    IF sorted = << >> THEN << o >>
    ELSE IF risk_adjusted_score(Head(sorted)) >= risk_adjusted_score(o)
         THEN << Head(sorted) >> \o InsertByScore(Tail(sorted), o)
         ELSE << o >> \o sorted

RECURSIVE SortByScore(_)
SortByScore(s) ==
    IF s = << >> THEN << >>
    ELSE InsertByScore(SortByScore(SubSeq(s, 1, Len(s) - 1)), s[Len(s)])

\* _detect_opportunities: the pairs in their configured order, a pair skipped
\* when one of its venues is no key of all_rates, the whole list sorted.
RECURSIVE DetectOverPairs(_, _, _)
DetectOverPairs(pairs, all_rates, weekend) ==
    IF pairs = << >> THEN << >>
    ELSE LET exs == PairExchanges(Head(pairs))
             rest == DetectOverPairs(Tail(pairs), all_rates, weekend)
         IN  IF all_rates[exs[1]] = << >> \/ all_rates[exs[2]] = << >> THEN rest
             ELSE _detect_pair_opportunities(Head(pairs), all_rates[exs[1]][1],
                                             all_rates[exs[2]][1], weekend) \o rest

_detect_opportunities(all_rates, weekend) ==
    SortByScore(DetectOverPairs(OraclePairs, all_rates, weekend))

\* A snapshot whose opportunities are detected over the rates of this update
\* filled up, for the tokens a venue gave no rate for, with the rates of the
\* snapshot in the cache.
FundingSnapshotCarried(start_time, all_rates, weekend) ==
    [ timestamp |-> start_time,
      rates |-> all_rates,
      opportunities |->
          _detect_opportunities(
              [ x \in OracleExchanges |->
                  IF all_rates[x] = << >> \/ current_snapshot = << >>
                     \/ current_snapshot[1].rates[x] = << >>
                  THEN all_rates[x]
                  ELSE << [ t \in OracleTokens |->
                             IF all_rates[x][1][t] = << >>
                             THEN current_snapshot[1].rates[x][1][t]
                             ELSE all_rates[x][1][t] ] >> ],
              weekend) ]

\* The FundingSnapshot update_funding_rates builds.  Updates run one after
\* the other (start, then _update_loop), so the number of the update orders
\* the snapshots as their timestamps do.
FundingSnapshot(start_time, all_rates, weekend) ==
    [ timestamp |-> start_time,
      rates |-> all_rates,
      opportunities |-> _detect_opportunities(all_rates, weekend) ]

\* update_funding_rates up to the gather of _collect_all_rates.  Without a
\* connected venue nothing is awaited and the (empty) snapshot is published at
\* once.  weekend is the clock when the opportunities are created.
UpdateBegin(weekend) ==
    /\ updating.pc = "idle"
    /\ total_updates < MaxUpdates
    /\ LET asked == ActiveConnectors(connectors, is_connected) IN
       IF asked = {}
       THEN /\ current_snapshot' = << FundingSnapshot(total_updates + 1,
                                          _collect_all_rates({}, updating.results), weekend) >>
            /\ total_updates' = total_updates + 1
            /\ updating' = IdleUpdate("snapshot")
       ELSE /\ updating' = [ pc |-> "collect", start_time |-> total_updates + 1,
                             asked |-> asked,
                             results |-> [ x \in OracleExchanges |-> << >> ],
                             ret |-> "none" ]
            /\ UNCHANGED << current_snapshot, total_updates >>
    /\ UNCHANGED << bot_vars, overlapping, last_read, built >>

\* One _collect_exchange_rates task comes back.
VenueAnswers(x, batch, fallback) ==
    /\ updating.pc = "collect"
    /\ x \in updating.asked
    /\ updating.results[x] = << >>
    /\ updating' = [ updating EXCEPT
                       !.results[x] = << _collect_exchange_rates(batch, fallback) >> ]
    /\ UNCHANGED << bot_vars, current_snapshot, total_updates, overlapping, last_read, built >>

\* The gather is complete: detection, the new snapshot, the counters.
UpdateEnd(weekend) ==
    /\ updating.pc = "collect"
    /\ \A x \in updating.asked : updating.results[x] # << >>
    /\ current_snapshot' = << FundingSnapshot(updating.start_time,
                                  _collect_all_rates(updating.asked, updating.results),
                                  weekend) >>
    /\ total_updates' = total_updates + 1
    /\ updating' = IdleUpdate("snapshot")
    /\ UNCHANGED << bot_vars, overlapping, last_read, built >>

\* _get_best_opportunities returns filtered[:5].
BestCount == 5

\* The reads of the cache, as the list returned and the cache they leave:
\* get_current_opportunities() hands out the snapshot's list,
\* get_current_opportunities(min_score = 30) and the engine's
\* _get_best_opportunities build a filtered list.
get_current_opportunitiesInPlace(snap, kind) ==
    IF snap = << >> THEN [ list |-> << >>, cache |-> snap ]
    ELSE LET all == snap[1].opportunities
             list == CASE kind = "all" -> all
                       [] kind = "min_score" -> SelectSeq(all, LAMBDA o : o.score >= 300)
                       [] kind = "best" ->
                            SelectSeq(all, LAMBDA o : /\ o.score >= 300
                                                      /\ o.spread >= min_spread_threshold
                                                      /\ should_execute(o, min_spread_threshold))
         IN  [ list |-> IF kind = "best" THEN SubSeq(list, 1, Min2(BestCount, Len(list)))
                        ELSE list,
               cache |-> << [ snap[1] EXCEPT !.opportunities = list ] >> ]

\* A read for the best that hands out every opportunity that passes.
get_current_opportunitiesUncut(snap, kind) ==
    IF snap = << >> THEN [ list |-> << >>, cache |-> snap ]
    ELSE LET all == snap[1].opportunities
             list == CASE kind = "all" -> all
                       [] kind = "min_score" -> SelectSeq(all, LAMBDA o : o.score >= 300)
                       [] kind = "best" ->
                            SelectSeq(all, LAMBDA o : /\ o.score >= 300
                                                      /\ o.spread >= min_spread_threshold
                                                      /\ should_execute(o, min_spread_threshold))
         IN  [ list |-> list, cache |-> snap ]

get_current_opportunities(snap, kind) ==
    IF snap = << >> THEN [ list |-> << >>, cache |-> snap ]
    ELSE LET all == snap[1].opportunities
             list == CASE kind = "all" -> all
                       [] kind = "min_score" -> SelectSeq(all, LAMBDA o : o.score >= 300)
                       [] kind = "best" ->
                            SelectSeq(all, LAMBDA o : /\ o.score >= 300
                                                      /\ o.spread >= min_spread_threshold
                                                      /\ should_execute(o, min_spread_threshold))
         IN  [ list |-> IF kind = "best" THEN SubSeq(list, 1, Min2(BestCount, Len(list)))
                        ELSE list,
               cache |-> snap ]

ReadKinds == {"all", "min_score", "best"}

\* get_current_rates(): the snapshot's rates, << >> for None.
get_current_rates(snap) == IF snap = << >> THEN << >> ELSE << snap[1].rates >>

\* A read of the rates and of the opportunities, by the engine's cycle or by
\* any other caller; last_read keeps what the reader was handed and the
\* timestamp of the snapshot it read.
ReadOpportunities(kind) ==
    /\ LET r == get_current_opportunities(current_snapshot, kind) IN
       /\ last_read' = << [ timestamp |-> IF current_snapshot = << >> THEN 0
                                          ELSE current_snapshot[1].timestamp,
                            kind |-> kind,
                            rates |-> get_current_rates(current_snapshot),
                            list |-> r.list ] >>
       /\ current_snapshot' = r.cache
    /\ UNCHANGED << bot_vars, total_updates, updating, overlapping, built >>

\* A running bot that holds no position, its three venues configured.
RunningBot ==
    /\ state = "RUNNING"
    /\ error_count = 0
    /\ connectors = OracleExchanges
    /\ oracle = << [ is_running |-> TRUE, has_snapshot |-> FALSE, updated |-> FALSE ] >>
    /\ position_manager = << NewManager(TRUE, DefaultMaxPositionAge) >>
    /\ positions_opened_today = 0
    /\ max_daily_loss = -10
    /\ max_concurrent_positions = MaxPositions
    /\ positions = << >>
    /\ active_positions = << >>
    /\ position_history = << >>
    /\ total_positions_opened = 0
    /\ total_positions_closed = 0
    /\ venue = {}
    /\ in_flight = {}
    /\ next_order = 1
    /\ loop = [ t \in LoopIds |-> IdleLoop("none") ]
    /\ mon = MonIdle("sleep")
    /\ caller = IdleCaller("none", "none", "", {})
    /\ stopper = [ t \in StopperIds |-> NoStop ]
    /\ closing = [ t \in TaskIds |-> << >> ]

\* The oracle before its first update, the venues connected or not.
InitOracle ==
    /\ RunningBot
    /\ is_connected \in [ OracleExchanges -> BOOLEAN ]
    /\ CacheAtRest
    /\ day = StartDay

NextOracle ==
    \/ \E weekend \in BOOLEAN : UpdateBegin(weekend)
    \/ \E x \in OracleExchanges, batch \in Answers(BatchAnswers), fallback \in FallbackAnswers :
          VenueAnswers(x, batch, fallback)
    \/ \E weekend \in BOOLEAN : UpdateEnd(weekend)
    \/ \E kind \in ReadKinds : ReadOpportunities(kind)

SpecOracle == InitOracle /\ [][NextOracle]_vars

\* ------------------------------------------- the best of a snapshot

\* The funding rates (1e-4) the venues report for the two tokens: spreads of
\* 6 to 60, so that scores fall on both sides of 30 and the confidence and
\* the execution risk change with the spread.
BestRates == {-10, -4, 10, 50}

\* The oracle configured with two tokens, after its first update: the three
\* venues have answered with a rate for each token, and the snapshot made of
\* their answers is in the cache.  Nothing has been read yet.
InitBest ==
    /\ RunningBot
    /\ is_connected = [ x \in OracleExchanges |-> TRUE ]
    /\ \E all_rates \in [ OracleExchanges -> { << d >> : d \in [ Tokens -> { << r >> : r \in BestRates } ] } ],
          weekend \in BOOLEAN :
          current_snapshot = << FundingSnapshot(1, all_rates, weekend) >>
    /\ total_updates = 1
    /\ updating = IdleUpdate("snapshot")
    /\ overlapping = IdleUpdate("none")
    /\ last_read = << >>
    /\ built = << >>
    /\ day = StartDay

NextBest ==
    \E kind \in ReadKinds : ReadOpportunities(kind)

SpecBest == InitBest /\ [][NextBest]_vars

\* ------------------------------------------- two updates that overlap

\* A second call of update_funding_rates while the first is in its gather
\* (start() awaits one and launches _update_loop, which calls it again; a
\* second start() adds a second loop): the call has its own start_time and
\* its own all_rates, and only its last statements touch the oracle.
OverlapBegin ==
    /\ updating.pc = "collect"
    /\ overlapping.pc = "idle"
    /\ total_updates < MaxUpdates
    /\ ActiveConnectors(connectors, is_connected) # {}
    /\ overlapping' = [ pc |-> "collect", start_time |-> updating.start_time + 1,
                        asked |-> ActiveConnectors(connectors, is_connected),
                        results |-> [ x \in OracleExchanges |-> << >> ],
                        ret |-> "none" ]
    /\ UNCHANGED << bot_vars, current_snapshot, total_updates, updating, last_read, built >>

\* One _collect_exchange_rates task of the second call comes back.
OverlapAnswers(x, batch, fallback) ==
    /\ overlapping.pc = "collect"
    /\ x \in overlapping.asked
    /\ overlapping.results[x] = << >>
    /\ overlapping' = [ overlapping EXCEPT
                          !.results[x] = << _collect_exchange_rates(batch, fallback) >> ]
    /\ UNCHANGED << bot_vars, current_snapshot, total_updates, updating, last_read, built >>

\* The second call's gather is complete: detection, the new snapshot, the
\* counters.
OverlapEnd(weekend) ==
    /\ overlapping.pc = "collect"
    /\ \A x \in overlapping.asked : overlapping.results[x] # << >>
    /\ current_snapshot' = << FundingSnapshot(overlapping.start_time,
                                  _collect_all_rates(overlapping.asked, overlapping.results),
                                  weekend) >>
    /\ total_updates' = total_updates + 1
    /\ overlapping' = IdleUpdate("snapshot")
    /\ UNCHANGED << bot_vars, updating, last_read, built >>

\* Two venues connected; the updates of the oracle with a second call that
\* may start while the first collects.
InitTwoUpdates ==
    /\ RunningBot
    /\ is_connected = [ x \in OracleExchanges |-> x # "kucoin" ]
    /\ CacheAtRest
    /\ day = StartDay

NextTwoUpdates ==
    \/ \E weekend \in BOOLEAN : UpdateBegin(weekend)
    \/ \E x \in OracleExchanges, batch \in Answers(BatchAnswers), fallback \in FallbackAnswers :
          VenueAnswers(x, batch, fallback)
    \/ \E weekend \in BOOLEAN : UpdateEnd(weekend)
    \/ OverlapBegin
    \/ \E x \in OracleExchanges, batch \in Answers(BatchAnswers), fallback \in FallbackAnswers :
          OverlapAnswers(x, batch, fallback)
    \/ \E weekend \in BOOLEAN : OverlapEnd(weekend)

SpecTwoUpdates == InitTwoUpdates /\ [][NextTwoUpdates]_vars

\* ------------------------------------------- building an opportunity

\* Funding rates (1e-4) an opportunity is built from and updated with.
RateInputs == {-10, -4, 0, 10, 60}

\* ArbitrageOpportunity.update_market_data: data_a / data_b carry the new
\* funding rate (<< >> when the key is absent and the old rate is kept); the
\* metrics and the score are computed again, the score now with the
\* liquidity_score and the confidence create_opportunity has set.
update_market_data(opp, data_a, data_b) ==
    LET rate_a == IF data_a = << >> THEN opp.funding_rate_a ELSE data_a[1]
        rate_b == IF data_b = << >> THEN opp.funding_rate_b ELSE data_b[1]
        spread == OppSpread(rate_a, rate_b)
        freq_a == _get_exchange_frequency(opp.exchange_a)
        freq_b == _get_exchange_frequency(opp.exchange_b)
        freq_score == IF Min2(freq_a, freq_b) = 1 THEN 200
                      ELSE IF Max2(freq_a, freq_b) <= 8 THEN 100 ELSE 0
        score == Min2(8 * spread, 400) + freq_score + 15 * LiquidityScore
                 + 15 * opp.confidence + pair_bonuses(opp.pair_name)
    IN  [ opp EXCEPT !.funding_rate_a = rate_a,
                     !.funding_rate_b = rate_b,
                     !.side_a = SuggestedSideA(rate_a, rate_b),
                     !.side_b = IF SuggestedSideA(rate_a, rate_b) = "long" THEN "short"
                                ELSE "long",
                     !.spread = spread,
                     !.score = Min2(1000, Max2(0, score)) ]

\* The inputs of one create_opportunity call.
BuildInputs ==
    { [ pc |-> "inputs", token |-> tok, pair_name |-> pair, rate_a |-> ra, rate_b |-> rb,
        weekend |-> w, opp |-> << >>, updated |-> FALSE, buy |-> "", sell |-> "" ] :
        tok \in OracleTokens, pair \in SeqToSet(OraclePairs), ra \in RateInputs,
        rb \in RateInputs, w \in BOOLEAN }

\* create_opportunity returns.
BuildOpportunity ==
    /\ built.pc = "inputs"
    /\ built' = [ built EXCEPT !.pc = "built",
                                !.opp = << create_opportunity(built.token, built.pair_name,
                                                              built.rate_a, built.rate_b,
                                                              built.weekend) >> ]
    /\ UNCHANGED << bot_vars, current_snapshot, total_updates, updating, overlapping, last_read >>

\* update_market_data on the opportunity built.
UpdateMarketData(data_a, data_b) ==
    /\ built.pc = "built"
    /\ ~built.updated
    /\ built' = [ built EXCEPT !.opp = << update_market_data(built.opp[1], data_a, data_b) >>,
                                !.updated = TRUE ]
    /\ UNCHANGED << bot_vars, current_snapshot, total_updates, updating, overlapping, last_read >>

\* _open_arbitrage_position picks the venue of the BUY order and the venue of
\* the SELL order for the opportunity.
ChooseOrderVenues ==
    /\ built.pc = "built"
    /\ built' = [ built EXCEPT !.pc = "ordered",
                                !.buy = long_exchange(built.opp[1]),
                                !.sell = short_exchange(built.opp[1]) ]
    /\ UNCHANGED << bot_vars, current_snapshot, total_updates, updating, overlapping, last_read >>

InitOpp ==
    /\ RunningBot
    /\ is_connected = [ x \in OracleExchanges |-> TRUE ]
    /\ current_snapshot = << >>
    /\ total_updates = 0
    /\ updating = IdleUpdate("none")
    /\ overlapping = IdleUpdate("none")
    /\ last_read = << >>
    /\ built \in BuildInputs
    /\ day = StartDay

NextOpp ==
    \/ BuildOpportunity
    \/ \E data_a \in Answers(RateInputs), data_b \in Answers(RateInputs) :
          UpdateMarketData(data_a, data_b)
    \/ ChooseOrderVenues

SpecOpp == InitOpp /\ [][NextOpp]_vars

\* ------------------------------------------------------------ properties

\* C1: when one leg's market order is filled and the other leg's order
\* raises, the try_open_position call returns None, and the step in which it
\* returns adds no Position to the active set and leaves
\* total_positions_opened as it was.
C1_PartialFillNotRegistered ==
    [][ \A t \in LoopIds :
          ( /\ loop[t].pc = "orders" /\ loop'[t].pc # "orders"
            /\ "failed" \in {loop[t].long, loop[t].short}
            /\ {loop[t].long, loop[t].short} # {"failed"} )
          => ( /\ active_positions' = active_positions
               /\ total_positions_opened' = total_positions_opened
               /\ loop'[t].ret = "None" ) ]_vars

\* A try_open_position call has returned from one filled and one failed leg.
C1_Witness ==
    \E t \in LoopIds :
        /\ loop[t].what = "partial" /\ loop[t].ret = "None"
        /\ venue # {}

\* The failures of try_open_position that leave nothing on a venue: the
\* admission check, the pre-check, a missing price, two failed orders.
NormalFailures ==
    {"full", "duplicate", "not_executable", "precheck", "no_price", "both_failed"}

\* C2: what try_open_position returns after a partial hedge differs from what
\* it returns after each normal open failure.
C2_PartialHedgeDistinct ==
    \A t \in LoopIds :
        loop[t].what = "partial"
            => \A w \in NormalFailures : loop[t].ret # try_open_result(w)

\* A venue leg that belongs to a position of the active set.
Tracked(leg) ==
    \E id \in ActiveSet :
        /\ positions[id].token = leg.token
        /\ leg.exchange \in {positions[id].exchange_a, positions[id].exchange_b}

\* C3: in the step in which try_open_position returns, every leg the call has
\* filled is a leg of an active Position or is on no venue any more.
C3_FilledLegsTracked ==
    [][ \A t \in LoopIds :
          (loop[t].pc = "orders" /\ loop'[t].pc # "orders")
          => \A side \in {"long", "short"} :
                loop[t][side] = "filled"
                    => (LoopLeg(t, side) \notin venue' \/ Tracked(LoopLeg(t, side))') ]_vars

\* C4: no two active positions have the same (pair_name, token).
C4_NoDuplicateKey ==
    \A i \in 1..Len(active_positions), j \in 1..Len(active_positions) :
        i # j => ~( /\ positions[active_positions[i]].pair_name
                          = positions[active_positions[j]].pair_name
                    /\ positions[active_positions[i]].token
                          = positions[active_positions[j]].token )

\* The admission check has turned down an opportunity for a (pair_name, token)
\* that is active, with room left in the active set.
C4_Witness ==
    \E t \in LoopIds :
        /\ loop[t].what = "duplicate"
        /\ Len(active_positions) >= 1
        /\ Len(active_positions) < max_concurrent_positions

\* C5: the active set never holds more than max_concurrent_positions
\* positions.
C5_CapacityRespected == Len(active_positions) <= max_concurrent_positions

\* consider_position_replacement has closed a position and opened the new one,
\* and the active set is full.
C5_Witness ==
    \E t \in LoopIds :
        /\ loop[t].repl /\ loop[t].what = "opened"
        /\ total_positions_closed >= 1
        /\ Len(active_positions) = max_concurrent_positions

\* C6: in the step in which a stop() leaves the state STOPPED, the active set
\* is empty.
C6_StoppedMeansFlat ==
    [][ (state' = "STOPPED" /\ state # "STOPPED") => active_positions' = << >> ]_vars

\* C7: a main loop iteration in which the daily P&L fraction is at or below
\* max_daily_loss puts the engine into EMERGENCY_STOP (or, when nothing
\* suspends the stop, on into STOPPED) and leaves the loop.
C7_DailyLossStops ==
    [][ \A t \in LoopIds :
          ( /\ loop[t].pc = "head" /\ state = "RUNNING"
            /\ loop'[t] # loop[t]
            /\ DailyPnlAtMost(PM, position_manager, positions_opened_today,
                              max_daily_loss) )
          => ( /\ state' \in {"EMERGENCY_STOP", "STOPPED"}
               /\ loop'[t].pc \in {"stopping", "done"} ) ]_vars

\* C8: a main loop's count of failed cycles in a row reaches the ceiling only
\* in a step that calls stop(emergency=True) -- the state becomes
\* EMERGENCY_STOP, or STOPPED when nothing suspends the stop -- and leaves the
\* loop, so the count never gets beyond the ceiling.
C8_ErrorCeilingStops ==
    [][ \A t \in LoopIds :
          (loop'[t].fails >= ErrorCeiling /\ loop'[t].fails # loop[t].fails)
          => ( /\ loop[t].fails = ErrorCeiling - 1
               /\ state' \in {"EMERGENCY_STOP", "STOPPED"}
               /\ loop'[t].pc \in {"stopping", "done"} ) ]_vars

\* A main loop is in the stop(emergency=True) of its tenth failed cycle.
C8_Witness ==
    \E t \in LoopIds :
        /\ loop[t].fails = ErrorCeiling
        /\ loop[t].pc = "stopping"
        /\ state = "EMERGENCY_STOP"

\* The state changes the specification lists.
AllowedTransitions ==
    { << "STOPPED", "STARTING" >>, << "STARTING", "RUNNING" >>,
      << "RUNNING", "STOPPING" >>, << "STOPPING", "STOPPED" >>,
      << "RUNNING", "EMERGENCY_STOP" >>, << "EMERGENCY_STOP", "STOPPED" >> }

\* C9: every change of the engine state is one of the listed transitions or
\* leads into ERROR.  (What an outside call does to an engine in ERROR, its
\* restart or its stop, is not held against the list.)
C9_OnlyListedTransitions ==
    [][ state' # state
          => \/ << state, state' >> \in AllowedTransitions
             \/ state' = "ERROR"
             \/ state = "ERROR" ]_vars

\* C10: on an engine without oracle and manager, an initialize() that fewer
\* than two connectors answer returns False, leaves the state ERROR and builds
\* neither the oracle nor the position manager; a start() that follows returns
\* False at once, does not make the state RUNNING and creates no main loop.
C10_FailedInitialize ==
    [][ /\ ( /\ caller.op = "initialize" /\ caller.pc # "idle" /\ caller'.pc = "idle"
             /\ oracle = << >> /\ position_manager = << >>
             /\ Cardinality(caller'.pinged) < 2 )
           => ( /\ caller'.ret = "False"
                /\ state' = "ERROR"
                /\ oracle' = << >> /\ position_manager' = << >> )
        /\ ( /\ caller.op = "initialize" /\ caller.pc = "idle" /\ caller.ret = "False"
             /\ oracle = << >>
             /\ caller'.op = "start" )
           => ( /\ caller'.pc = "idle" /\ caller'.ret = "False"
                /\ state' # "RUNNING"
                /\ loop' = loop ) ]_vars

\* start() has returned False from the missing oracle that a failed
\* initialize() left behind.
C10_Witness ==
    /\ caller.pc = "idle" /\ caller.op = "start" /\ caller.ret = "False"
    /\ caller.raised = "AttributeError"
    /\ state = "ERROR"
    /\ oracle = << >> /\ position_manager = << >>
    /\ \A t \in LoopIds : loop[t].pc = "none"

\* The new opportunity's risk_adjusted_score over the health score of p (over
\* 10 when that is not positive) is strictly greater than 1.5.
RatioAboveThreshold(opp, p) ==
    LET h == health_score(p)
        d == IF h > 0 THEN h ELSE 10
    IN  2 * risk_adjusted_score(opp) > 3 * 2000 * d

HistoryCount(h, id) == Cardinality({ i \in 1..Len(h) : h[i] = id })

\* C12: the step in which a close_position(id) call comes back after its
\* closing orders either returns True -- then id has left the active set, is
\* in position_history exactly once, has status CLOSED and unrealized_pnl 0,
\* its net_pnl is total_pnl minus total_fees_paid, and the closed counter has
\* gone up by one -- or returns False, and then neither the history nor the
\* closed counter changes.
C12_CloseMovesToHistoryOnce ==
    [][ \A t \in TaskIds :
          (closing[t] # << >> /\ closing'[t] # closing[t])
          => LET id == closing[t][1] IN
             IF id \in ActiveSet
             THEN /\ id \notin SeqToSet(active_positions')
                  /\ HistoryCount(position_history', id) = 1
                  /\ positions'[id].status = "CLOSED"
                  /\ positions'[id].unrealized_pnl = 0
                  /\ net_pnl(positions'[id])
                        = positions'[id].realized_pnl + positions'[id].unrealized_pnl
                          - positions'[id].total_fees_paid
                  /\ total_positions_closed' = total_positions_closed + 1
             ELSE /\ position_history' = position_history
                  /\ total_positions_closed' = total_positions_closed ]_vars

\* A position that had an unrealized loss has been closed: it is in the
\* history, CLOSED, with unrealized_pnl 0.
C12_Witness ==
    \E id \in SeqToSet(position_history) :
        /\ id \notin ActiveSet
        /\ positions[id].status = "CLOSED"
        /\ positions[id].unrealized_pnl = 0
        /\ positions[id].realized_pnl < -2
        /\ total_positions_closed >= 1

\* C13: in every opportunity built from the rates of two venues, the venue
\* with the lower funding rate is suggested 'long' and the one with the higher
\* rate 'short' (with equal rates the first venue is long); the BUY order goes
\* to the venue suggested long and the SELL order to the venue suggested
\* short.  With the rates +0.0010 and -0.0004 the long leg is on the venue
\* whose rate is -0.0004.
C13_LowerRateIsLong ==
    (built # << >> /\ built.opp # << >>) =>
        LET o == built.opp[1] IN
        /\ o.funding_rate_a < o.funding_rate_b => (o.side_a = "long" /\ o.side_b = "short")
        /\ o.funding_rate_a > o.funding_rate_b => (o.side_a = "short" /\ o.side_b = "long")
        /\ o.funding_rate_a = o.funding_rate_b => (o.side_a = "long" /\ o.side_b = "short")
        /\ built.pc = "ordered" =>
             /\ built.buy = (IF o.side_a = "long" THEN o.exchange_a ELSE o.exchange_b)
             /\ built.sell = (IF o.side_a = "short" THEN o.exchange_a ELSE o.exchange_b)
             /\ built.buy # built.sell
             /\ (o.funding_rate_a = 10 /\ o.funding_rate_b = -4) => built.buy = o.exchange_b
             /\ (o.funding_rate_a = -4 /\ o.funding_rate_b = 10) => built.buy = o.exchange_a

C13_Witness ==
    /\ built # << >>
    /\ built.pc = "ordered"
    /\ built.opp[1].funding_rate_a = 10
    /\ built.opp[1].funding_rate_b = -4
    /\ built.buy = built.opp[1].exchange_b
    /\ built.sell = built.opp[1].exchange_a

\* C16: an opportunity's spread equals the absolute difference of its two
\* venues' funding rates and its score lies in [0, 100] (0..1000 in tenths),
\* right after it is created and after update_market_data.
C16_SpreadAndScoreRange ==
    (built # << >> /\ built.opp # << >>) =>
        LET o == built.opp[1]
            d == o.funding_rate_a - o.funding_rate_b
        IN  /\ o.spread = (IF d < 0 THEN -d ELSE d)
            /\ o.score >= 0
            /\ o.score <= 1000

C16_Witness ==
    /\ built # << >>
    /\ built.pc = "built"
    /\ built.updated
    /\ built.opp[1].funding_rate_a < built.opp[1].funding_rate_b
    /\ built.opp[1].funding_rate_a # built.rate_a
    /\ built.opp[1].spread = 70
    /\ built.opp[1].score > 0

\* C14: when fewer than two venues contribute rates to an update (zero or one
\* connected venue, or venues that answered without a rate), the snapshot the
\* update publishes has an empty opportunity list, whatever the rates are, and
\* the update returns the snapshot instead of raising.
C14_FewerThanTwoVenuesNoOpportunity ==
    [][ (total_updates' # total_updates \/ updating'.ret = "raised") =>
          LET connected == { x \in connectors : is_connected[x] }
              contributing == { x \in OracleExchanges :
                                  /\ current_snapshot'[1].rates[x] # << >>
                                  /\ \E t \in OracleTokens :
                                        current_snapshot'[1].rates[x][1][t] # << >> }
          IN  /\ updating'.ret = "snapshot"
              /\ current_snapshot' # << >>
              /\ current_snapshot'[1].timestamp = total_updates'
              /\ (Cardinality(connected) < 2 \/ Cardinality(contributing) < 2)
                    => current_snapshot'[1].opportunities = << >>
              /\ Cardinality(contributing) <= Cardinality(connected) ]_vars

C14_Witness ==
    /\ Cardinality({ x \in connectors : is_connected[x] }) = 1
    /\ current_snapshot # << >>
    /\ current_snapshot[1].opportunities = << >>
    /\ \E x \in OracleExchanges :
          /\ current_snapshot[1].rates[x] # << >>
          /\ current_snapshot[1].rates[x][1]["BTC"] = << 10 >>
    /\ updating.ret = "snapshot"

\* C15: when the rate collection of one connected venue fails (its batch call
\* and every per-token fallback call raise), update_funding_rates still
\* publishes a snapshot that holds the rates of every other connected venue
\* that answered, still detects the opportunities between those venues, does
\* not raise, and leaves the set of connectors as it was.
C15_FailingVenueDoesNotStopUpdate ==
    [][ ( /\ updating.pc = "collect"
          /\ updating'.pc = "idle"
          /\ \E x \in updating.asked : updating.results[x] = << NoRates >> )
        => LET answered == { y \in updating.asked :
                               \E t \in OracleTokens : updating.results[y][1][t] # << >> }
               snap == current_snapshot'[1]
           IN  /\ updating'.ret = "snapshot"
               /\ current_snapshot' # << >>
               /\ current_snapshot' # current_snapshot
               /\ total_updates' = total_updates + 1
               /\ \A y \in answered : snap.rates[y] = updating.results[y]
               /\ \A i \in 1..Len(OraclePairs), t \in OracleTokens :
                     LET a == PairExchanges(OraclePairs[i])[1]
                         b == PairExchanges(OraclePairs[i])[2]
                     IN  ( /\ a \in answered /\ b \in answered
                           /\ updating.results[a][1][t] # << >>
                           /\ updating.results[b][1][t] # << >>
                           /\ Abs(updating.results[a][1][t][1] - updating.results[b][1][t][1])
                                >= min_spread_threshold )
                         <=> \E k \in 1..Len(snap.opportunities) :
                                /\ snap.opportunities[k].pair_name = OraclePairs[i]
                                /\ snap.opportunities[k].token = t
                                /\ snap.opportunities[k].funding_rate_a = updating.results[a][1][t][1]
                                /\ snap.opportunities[k].funding_rate_b = updating.results[b][1][t][1]
               /\ connectors' = connectors
               /\ is_connected' = is_connected ]_vars

C15_Witness ==
    /\ current_snapshot # << >>
    /\ updating.ret = "snapshot"
    /\ \A x \in OracleExchanges : is_connected[x]
    /\ current_snapshot[1].rates["kucoin"] = << NoRates >>
    /\ current_snapshot[1].rates["binance"] = << [ t \in OracleTokens |-> << 10 >> ] >>
    /\ current_snapshot[1].rates["hyperliquid"] = << [ t \in OracleTokens |-> << -4 >> ] >>
    /\ Len(current_snapshot[1].opportunities) = 1
    /\ current_snapshot[1].opportunities[1].pair_name = "binance_hyperliquid"

\* C18: once a snapshot is published, no step changes its timestamp, its
\* rates or its opportunity list: a step either leaves the cache as it is or
\* is the end of a later update, which puts a new snapshot with a later
\* timestamp in its place; what a read of the whole snapshot returned stays
\* equal to what the snapshot with that timestamp holds.
C18_PublishedSnapshotImmutable ==
    [][ /\ current_snapshot # << >> =>
             \/ current_snapshot' = current_snapshot
             \/ /\ current_snapshot' # << >>
                /\ current_snapshot'[1].timestamp > current_snapshot[1].timestamp
                /\ total_updates' = total_updates + 1
        /\ ( /\ last_read' # << >>
             /\ current_snapshot' # << >>
             /\ last_read'[1].kind = "all"
             /\ last_read'[1].timestamp = current_snapshot'[1].timestamp )
           => /\ last_read'[1].rates = << current_snapshot'[1].rates >>
              /\ last_read'[1].list = current_snapshot'[1].opportunities ]_vars

C18_Witness ==
    /\ current_snapshot # << >>
    /\ current_snapshot[1].timestamp = 2
    /\ Len(current_snapshot[1].opportunities) = 2
    /\ last_read # << >>
    /\ last_read[1].kind = "best"
    /\ last_read[1].timestamp = 2
    /\ Len(last_read[1].list) = 1

\* C17: every Position that try_open_position has registered has exactly two
\* legs, of equal size, on two different venues, the leg position_a with side
\* long and the leg position_b with side short.
C17_TwoOpposedLegs ==
    \A id \in DOMAIN positions :
        LET p == positions[id] IN
        /\ p.exchange_a \in Exchanges
        /\ p.exchange_b \in Exchanges
        /\ p.exchange_a # p.exchange_b
        /\ p.size_a = p.size_b
        /\ p.size_a > 0
        /\ p.side_a = "long"
        /\ p.side_b = "short"

C17_Witness ==
    /\ Len(active_positions) = 2
    /\ \E id \in ActiveSet :
          /\ positions[id].exchange_a = "hyperliquid"
          /\ positions[id].exchange_b = "binance"
          /\ positions[id].size_a = 10
          /\ positions[id].size_b = 10
    /\ \E id \in ActiveSet :
          /\ positions[id].exchange_a = "binance"
          /\ positions[id].exchange_b = "hyperliquid"

\* C19: for any position id at most one close takes effect: while one
\* close_position call for the id is suspended in its closing orders no
\* second call for the same id gets as far as submitting closing orders, and
\* a position that has reached the history has the status CLOSED.
C19_AtMostOneCloseTakesEffect ==
    /\ \A t1 \in TaskIds, t2 \in TaskIds :
          (t1 # t2 /\ closing[t1] # << >> /\ closing[t2] # << >>)
             => closing[t1][1] # closing[t2][1]
    /\ \A id \in SeqToSet(position_history) : positions[id].status = "CLOSED"

\* C20: across any sequence of start() and stop() calls at most one
\* _main_trading_loop task executes cycles: whenever a loop task passes its
\* while test and runs a cycle, no other loop task is waiting at its own
\* while test (a loop of an earlier start() has ended, or ends without a
\* further cycle, once stop() has completed).
C20_SingleMainLoop ==
    [][ \A t \in LoopIds :
          ( /\ loop[t].pc = "head"
            /\ state = "RUNNING"
            /\ loop'[t] # loop[t] )
          => \A u \in LoopIds \ {t} : loop[u].pc # "head" ]_vars

\* C21: once stop(emergency=True) has set the state to EMERGENCY_STOP, no step
\* overrides it while that stop is in progress: the state stays EMERGENCY_STOP
\* until the stop itself ends (in STOPPED or ERROR), the oracle and the
\* position manager are not started again and no trading loop is created.
C21_EmergencyStopNotOverridden ==
    [][ \A t \in StopperIds :
          ( /\ stopper[t].pc # "none"
            /\ stopper[t].emergency
            /\ stopper'[t].pc # "none"
            /\ state = "EMERGENCY_STOP" )
          => /\ state' = "EMERGENCY_STOP"
             /\ \A u \in LoopIds : loop[u].pc \in {"none", "done"}
                                      => loop'[u].pc \in {"none", "done"} ]_vars

\* C22: error_count counts consecutive failed cycles: a cycle of the main
\* loop that completes without raising leaves error_count at 0.
C22_CleanCycleResetsErrorCount ==
    [][ \A t \in LoopIds :
          ( /\ loop[t].pc = "head"
            /\ state = "RUNNING"
            /\ position_manager # << >> /\ position_manager[1].is_running
            /\ ConnectedCount(is_connected) >= 2
            /\ loop'[t] # loop[t] )
          => error_count' = 0 ]_vars

\* C23: an iteration of the main loop that starts with fewer than two
\* connectors connected triggers the emergency stop in that same iteration.
C23_FewConnectorsStopAtOnce ==
    [][ \A t \in LoopIds :
          ( /\ loop[t].pc = "head"
            /\ state = "RUNNING"
            /\ ConnectedCount(is_connected) < 2
            /\ loop'[t] # loop[t] )
          => state' # "RUNNING" ]_vars

\* C24: when the components are healthy (the oracle is running with a
\* snapshot and at least one update, the position manager is running and at
\* least two connectors are connected) the per-cycle health gate passes.
C24_HealthyComponentsPassGate ==
    \A t \in LoopIds :
        ( /\ loop[t].pc = "head"
          /\ state = "RUNNING"
          /\ oracle # << >>
          /\ oracle[1].is_running /\ oracle[1].has_snapshot /\ oracle[1].updated
          /\ position_manager # << >> /\ position_manager[1].is_running
          /\ ConnectedCount(is_connected) >= 2 )
        => _verify_components_health(Eng, OracleCheck(Eng)) = "True"

\* C25: try_open_position returns only after both leg order submissions have
\* settled: it never leaves the gather while one leg's order is in flight.
C25_ReturnsAfterBothLegsSettled ==
    [][ \A t \in LoopIds :
          (loop[t].pc = "orders" /\ loop'[t].pc # "orders")
              => loop[t].long # "pending" /\ loop[t].short # "pending" ]_vars

C27_FailedCloseNotFinalized ==
    [][ \A t \in TaskIds :
          (closing[t] # << >> /\ closing'[t] # closing[t])
          => LET id == closing[t][1]
                 p == positions[id]
             IN  (\E l \in venue' : /\ l.token = p.token
                                    /\ l.exchange \in {p.exchange_a, p.exchange_b})
                 => positions'[id].status # "CLOSED" ]_vars

\* C28: whenever consider_position_replacement has closed the worst position,
\* a position for the new opportunity is registered before it returns.
C28_ReplacementRegistersNewPosition ==
    [][ \A t \in LoopIds :
          ( /\ loop[t].pc \in {"repl_close", "validate", "price", "orders"}
            /\ loop'[t].pc = "cycle"
            /\ loop'[t].repl )
          => /\ loop'[t].what = "opened"
             /\ Len(active_positions') >= max_concurrent_positions ]_vars

\* C30: a pass of evaluate_all_positions marks for closing every position it
\* evaluates whose age exceeds the configured
\* risk_management.max_position_age_hours, whatever that maximum is.
C30_ConfiguredMaxAgeCloses ==
    [][ ( /\ mon.pc = "funding"
          /\ mon' # mon
          /\ Len(active_positions) = mon.n
          /\ AgeExceeds(positions[mon.cur].age,
                        position_manager[1].max_position_age_hours) )
        => \/ mon.cur \in SeqToSet(mon'.marked)
           \/ positions'[mon.cur].status = "CLOSING" ]_vars

\* C29: the admission check and the registration of try_open_position are
\* atomic with respect to other try_open_position calls: whenever a call
\* registers a position, the active set stays within
\* max_concurrent_positions and holds no two positions for the same
\* (pair_name, token).
C29_OverlappingOpensAdmittedOnce ==
    [][ Len(active_positions') > Len(active_positions)
        => /\ Len(active_positions') <= max_concurrent_positions
           /\ \A i, j \in ActiveSet' :
                 ( /\ positions'[i].pair_name = positions'[j].pair_name
                   /\ positions'[i].token = positions'[j].token ) => i = j ]_vars

\* C31: an evaluation that refreshes a position's funding rates and finds the
\* rate of the long venue (exchange_a) above the rate of the short venue marks
\* the position for closing.
C31_PayingHedgeIsClosed ==
    [][ ( /\ mon.pc = "funding"
          /\ mon' # mon
          /\ Len(active_positions) = mon.n
          /\ \/ positions'[mon.cur].funding_rate_a # positions[mon.cur].funding_rate_a
             \/ positions'[mon.cur].funding_rate_b # positions[mon.cur].funding_rate_b
          /\ positions'[mon.cur].funding_rate_a > positions'[mon.cur].funding_rate_b )
        => \/ mon.cur \in SeqToSet(mon'.marked)
           \/ positions'[mon.cur].status = "CLOSING" ]_vars

\* C32: a position whose price refresh raised during its evaluation is
\* queued for closing in the same pass of evaluate_all_positions.
C32_DataErrorQueuesClose ==
    [][ ( /\ mon.pc = "funding"
          /\ mon.raised
          /\ mon' # mon
          /\ Len(active_positions) = mon.n )
        => \/ mon.cur \in SeqToSet(mon'.marked)
           \/ positions'[mon.cur].status = "CLOSING" ]_vars

C34_HedgedPnlNetsOut ==
    [][ ( /\ mon.pc = "funding"
          /\ mon' # mon
          /\ positions'[mon.cur].current_a # 0
          /\ positions'[mon.cur].current_b # 0 )
        => LET p == positions'[mon.cur] IN
           p.unrealized_pnl = (p.current_a - p.entry_a) * p.size_a
                              + (p.entry_b - p.current_b) * p.size_b ]_vars

\* C35: whenever a position is active, the capital the daily P&L fraction is
\* divided by (positions_opened_today x position_size_usd) is positive.
C35_CapitalPositiveWhilePositionsOpen ==
    active_positions # << >> => positions_opened_today * position_size_usd > 0

\* C37: the first trading cycle that completes after the local date has
\* changed resets positions_opened_today to 0 and moves daily_start_time to
\* the new day, whether or not the cycle found an opportunity.
C37_FirstCycleOfDayResets ==
    [][ (~day.completed /\ day'.completed /\ day.now > day.start)
           => (positions_opened_today' = 0 /\ day'.start = day.now) ]_vars

\* The venues of the position a close_position call of task t has just sent
\* its two closing orders to, in this step.
SubmittedTo(t) ==
    IF closing'[t] # << >> /\ closing'[t] # closing[t]
    THEN { positions[closing'[t][1]].exchange_a, positions[closing'[t][1]].exchange_b }
    ELSE {}

\* C36: in stop(emergency=True) no disconnect() is called while a
\* close_position of the stop's close_all_positions is pending, and once the
\* stop has disconnected a connector no task submits a closing order to it.
C36_ClosesBeforeDisconnect ==
    [][ /\ \A t \in StopperIds :
              (stopper'[t].pc = "run" /\ stopper'[t].emergency
                  /\ Head(stopper'[t].todo).k = "disc")
                 => /\ closing'[t] = << >>
                    /\ \A i \in 1..Len(stopper'[t].todo) : stopper'[t].todo[i].k # "close"
        /\ \A u \in StopperIds :
              (stopper[u].pc = "run" /\ stopper[u].emergency)
                 => \A t \in TaskIds : \A x \in SubmittedTo(t) :
                       x \in stopper[u].conns => is_connected[x] ]_vars

\* The update_funding_rates calls under way.
UpdateCalls == { updating, overlapping }

\* C38: the opportunities of the published snapshot are those detected over
\* the snapshot's own rates map, and a snapshot is published only by a call
\* whose collection tasks have all settled, with the rates these tasks of
\* that call returned -- also when two calls overlap.
C38_SnapshotFromOwnRates ==
    /\ [](current_snapshot # << >> =>
            \E weekend \in BOOLEAN :
               current_snapshot[1].opportunities
                  = _detect_opportunities(current_snapshot[1].rates, weekend))
    /\ [][ current_snapshot' # current_snapshot =>
             \E c \in UpdateCalls :
                /\ \A x \in c.asked : c.results[x] # << >>
                /\ c.asked = ActiveConnectors(connectors, is_connected) \/ c.pc = "collect"
                /\ current_snapshot'[1].rates
                      = [ x \in OracleExchanges |-> IF x \in c.asked THEN c.results[x] ELSE << >> ]
                /\ \A k \in 1..Len(current_snapshot'[1].opportunities) :
                      LET o == current_snapshot'[1].opportunities[k]
                          exs == PairExchanges(o.pair_name)
                      IN  /\ o.funding_rate_a = c.results[exs[1]][1][o.token][1]
                          /\ o.funding_rate_b = c.results[exs[2]][1][o.token][1] ]_vars

\* The second call has published its snapshot, with an opportunity, while the
\* first still collects and holds other rates for a venue.
C38_Witness ==
    /\ current_snapshot # << >>
    /\ current_snapshot[1].opportunities # << >>
    /\ overlapping.ret = "snapshot"
    /\ updating.pc = "collect"
    /\ \E x \in updating.asked :
          /\ updating.results[x] # << >>
          /\ updating.results[x] # current_snapshot[1].rates[x]

\* What _get_best_opportunities asks of an opportunity.
PassesFilter(o) ==
    /\ o.score >= 300
    /\ o.spread >= min_spread_threshold
    /\ ~o.stale /\ o.confidence > 3 /\ o.execution_risk < 7

\* C39: the snapshot's list is in descending order of score * (1 -
\* (volatility_risk + execution_risk) / 2) * confidence, and
\* _get_best_opportunities returns, in the list's order, the first five (or
\* all, when there are fewer) of its opportunities with score >= 30, spread >=
\* the minimum spread and should_execute.
C39_BestAreFirstFiveThatPass ==
    (current_snapshot # << >>) =>
       LET all == current_snapshot[1].opportunities
           passing == { i \in 1..Len(all) : PassesFilter(all[i]) }
       IN  /\ \A i \in 1..Len(all) : \A j \in 1..Len(all) :
                i < j => all[i].score * (20 - all[i].execution_risk) * all[i].confidence
                           >= all[j].score * (20 - all[j].execution_risk) * all[j].confidence
           /\ (last_read # << >> /\ last_read[1].kind = "best"
                 /\ last_read[1].timestamp = current_snapshot[1].timestamp) =>
                 LET list == last_read[1].list
                 IN  /\ Len(list) = IF Cardinality(passing) < 5 THEN Cardinality(passing) ELSE 5
                     /\ \A k \in 1..Len(list) :
                           \E i \in passing :
                              /\ Cardinality({ j \in passing : j < i }) = k - 1
                              /\ list[k] = all[i]

\* A snapshot of six opportunities that all pass, whose order is not the
\* order of the raw scores, and the five a read for the best got.
C39_Witness ==
    /\ current_snapshot # << >>
    /\ Len(current_snapshot[1].opportunities) = 6
    /\ \A i \in 1..6 : PassesFilter(current_snapshot[1].opportunities[i])
    /\ \E i \in 1..5 : current_snapshot[1].opportunities[i].score
                          < current_snapshot[1].opportunities[i + 1].score
    /\ last_read # << >>
    /\ last_read[1].kind = "best"
    /\ Len(last_read[1].list) = 5

\* C40: in every state of the position manager, under any interleaving of
\* opens, evaluations, closes and replacements, total_positions_closed is the
\* length of position_history, total_positions_opened is the number of active
\* positions plus the length of the history, and no id is both active and in
\* the history.
C40_CountersMatchCollections ==
    /\ total_positions_closed = Len(position_history)
    /\ total_positions_opened = Len(active_positions) + Len(position_history)
    /\ ActiveSet \cap SeqToSet(position_history) = {}
    /\ Cardinality(ActiveSet) = Len(active_positions)

\* Two closes of one position have overlapped (the later one found the id
\* gone), another position has been opened since and is active.
C40_Witness ==
    /\ \E id \in SeqToSet(position_history) : positions[id].status = "ERROR"
    /\ active_positions # << >>
    /\ total_positions_opened >= 2

====
